---- MODULE Spec2Model ----
(***************************************************************************)
(* Annotation / axial-coding data service of the email summariser          *)
(* workshop (tools/email_annotation_app.py), together with the producer    *)
(* that seeds trace_runs (tools/generate_email_traces.py).                  *)
(*                                                                         *)
(* Tables are sets of rows (records); a primary key is NOT built into the  *)
(* representation, so INSERT OR REPLACE and plain INSERT are modelled by   *)
(* what they do to the set of rows.  Free text (open_code, display_name,   *)
(* slug, definition) is a sequence of one-character strings, so that       *)
(* strip(), lower() and replace() are computed.  Identifiers are atomic    *)
(* strings.                                                                *)
(***************************************************************************)
EXTENDS Integers, Sequences, FiniteSets, TLC

VARIABLES trace_runs, traces, labelers, annotations, failure_modes,
          axial_links, email_judgments, clock, uuids, resp, inflight, viewer

vars == <<trace_runs, traces, labelers, annotations, failure_modes,
          axial_links, email_judgments, clock, uuids, resp, inflight, viewer>>

-----------------------------------------------------------------------------
(* Bounds of the model *)

\* number of generation passes (timestamps of trace_runs.generated_at)
MaxPasses == 2
\* number of uuid4() tokens that reach the store
MaxUuid == 2
\* number of successful link writes (timestamps of axial_links.linked_at)
MaxLinkWrites == 2
\* number of labeler writes (timestamps of labelers.created_at)
MaxLabelerWrites == 2
\* number of rows of the CSV the viewer loads
MaxRecords == 2
\* number of Enter presses of a viewer session
MaxEnters == 4
\* number of rows of the CSV a generation pass reads
MaxRows == 2

-----------------------------------------------------------------------------
(* Values *)

\* Python None / SQL NULL / an absent JSON key or query parameter (identifiers)
None == "None"
\* an absent JSON key of a text field
NoText == <<"<absent>">>

Runs == {"r1", "r2"}
Hashes == {"e1", "e2"}
LabelerIds == {"l1"}
FmIds == {"f1", "f2"}

\* uuid.uuid4().hex tokens, in the order the generator hands them out
UuidHex == <<"u1", "u2", "u3", "u4", "u5", "u6">>
AnnotationIds == {UuidHex[i] : i \in 1..Len(UuidHex)}

\* request inputs
RunArgs == Runs \cup {None, "", "zz"}
CreateRunArgs == Runs \cup {None}
HashArgs == Hashes \cup {""}
LabelerArgs == LabelerIds \cup {None}
PassFailArgs == {"null", "false"}
AllPassFailArgs == {"null", "true", "false"}
OpenCodeArgs == {<<>>, <<" ">>, <<" ", "a", " ">>}
\* ids of annotations a client has seen
StoredIdArgs == {UuidHex[i] : i \in 1..2}
AnnotationIdArgs == StoredIdArgs \cup {None, ""}
FmIdArgs == FmIds \cup {None, ""}
DisplayNameArgs == {NoText, <<" ", "A", " ", "b", " ">>}
SlugArgs == {NoText, <<>>, <<"s">>}
DefinitionArgs == {NoText, <<"d">>}

\* open codes of the suggestion scenarios
\* "wrong tone wrong wrong"
WrongTone ==
  <<"w", "r", "o", "n", "g", " ", "t", "o", "n", "e",
     " ", "w", "r", "o", "n", "g", " ", "w", "r", "o", "n", "g">>
\* "Tone okay; ask: date time when"
ToneOkay ==
  <<"T", "o", "n", "e", " ", "o", "k", "a", "y", ";",
     " ", "a", "s", "k", ":",
     " ", "d", "a", "t", "e", " ", "t", "i", "m", "e", " ", "w", "h", "e", "n">>
\* "When date"
WhenDate ==
  <<"W", "h", "e", "n", " ", "d", "a", "t", "e">>
SuggestCodeArgs == {WrongTone, ToneOkay, WhenDate}

-----------------------------------------------------------------------------
(* Python helpers *)

\* truthiness of an identifier: None and "" are falsy
Truthy(x) == x # None /\ x # ""

\* truthiness of a text value
TruthyText(s) == s # NoText /\ s # <<>>

IsSpace(c) == c \in {" ", "\t", "\n"}

RECURSIVE LStrip(_)
LStrip(s) == IF s # <<>> /\ IsSpace(Head(s)) THEN LStrip(Tail(s)) ELSE s

RECURSIVE RStrip(_)
RStrip(s) ==
  IF s # <<>> /\ IsSpace(s[Len(s)]) THEN RStrip(SubSeq(s, 1, Len(s) - 1)) ELSE s

\* (mutant) no stripping
StripNothing(s) == s

\* str.strip()
Strip(s) == RStrip(LStrip(s))

UpperLetters ==
  <<"A", "B", "C", "D", "E", "F", "G", "H", "I", "J", "K", "L", "M", "N",
     "O", "P", "Q", "R", "S", "T", "U", "V", "W", "X", "Y", "Z">>
LowerLetters ==
  <<"a", "b", "c", "d", "e", "f", "g", "h", "i", "j", "k", "l", "m", "n",
     "o", "p", "q", "r", "s", "t", "u", "v", "w", "x", "y", "z">>

Letters == {UpperLetters[i] : i \in 1..26} \cup {LowerLetters[i] : i \in 1..26}

\* [A-Za-z]
IsAlpha(c) == c \in Letters

\* upper-case letter to lower-case letter, and back
LowerMap ==
  [c \in {UpperLetters[i] : i \in 1..26} |->
     LowerLetters[CHOOSE i \in 1..26 : UpperLetters[i] = c]]
UpperMap ==
  [c \in {LowerLetters[i] : i \in 1..26} |->
     UpperLetters[CHOOSE i \in 1..26 : LowerLetters[i] = c]]

LowerChar(c) == IF c \in DOMAIN LowerMap THEN LowerMap[c] ELSE c

UpperChar(c) == IF c \in DOMAIN UpperMap THEN UpperMap[c] ELSE c

\* str.title(): a letter that starts a run of letters is upper-cased, the
\* other letters are lower-cased
Title(s) ==
  [i \in 1..Len(s) |->
     IF i = 1 \/ ~IsAlpha(s[i - 1]) THEN UpperChar(s[i]) ELSE LowerChar(s[i])]

\* str.lower()
Lower(s) == [i \in 1..Len(s) |-> LowerChar(s[i])]

\* str.replace(" ", "-")
ReplaceSpaceHyphen(s) == [i \in 1..Len(s) |-> IF s[i] = " " THEN "-" ELSE s[i]]

\* (mutant) bool(pass_fail): an unset judgment becomes False
PyBoolNoneAsFalse(pf) ==
  CASE pf = "null" -> "False" [] pf = "true" -> "True" [] pf = "false" -> "False"

\* bool(pass_fail) if pass_fail is not None else None, of a JSON value
PyBoolOrNone(pf) ==
  CASE pf = "null" -> None [] pf = "true" -> "True" [] pf = "false" -> "False"

\* bool(pass_fail) if pass_fail is not None else None, of a BOOLEAN column
ColumnBoolOrNone(v) ==
  CASE v = None -> None [] v = "True" -> "True" [] v = "False" -> "False"

\* the literal "New Failure Mode"
NewFailureMode ==
  <<"N", "e", "w", " ", "F", "a", "i", "l", "u", "r", "e", " ", "M", "o", "d", "e">>

\* column DEFAULT of generated_at / created_at / linked_at: the time of the insert
DefaultTimestamp(t) == t

\* (mutant) a token generator that repeats itself
Uuid4Repeating(n) == UuidHex[1]

\* uuid.uuid4().hex: a token never handed out before
Uuid4(n) == UuidHex[n + 1]

-----------------------------------------------------------------------------
(* Run Resolver *)

\* (mutant) ORDER BY generated_at ASC
oldest_run_id(tr) ==
  IF tr = {} THEN None
  ELSE (CHOOSE r \in tr : \A x \in tr : x.generated_at >= r.generated_at).run_id

latest_run_id(tr) ==
  IF tr = {} THEN None
  ELSE (CHOOSE r \in tr : \A x \in tr : x.generated_at <= r.generated_at).run_id

\* (mutant) the requested run is ignored
resolve_run_id_latest_only(tr, run_id) == latest_run_id(tr)

\* (mutant) a requested run is taken to exist
resolve_run_id_trusting(tr, run_id) ==
  IF Truthy(run_id) THEN run_id ELSE latest_run_id(tr)

resolve_run_id(tr, run_id) ==
  IF Truthy(run_id) /\ (\E r \in tr : r.run_id = run_id) THEN run_id
  ELSE latest_run_id(tr)

-----------------------------------------------------------------------------
(* Trace Store *)

\* what a trace file can hold (the value "absent" stands for no file):
\*   valid           a trace as the generator writes it
\*   not_json        text that json.loads rejects (e.g. a partial write)
\*   empty_object    {}
\*   top_array       a JSON array with elements, e.g. [1]
\*   no_sections     an object without metadata, request and response
\*   empty_messages  an object whose request and response have "messages": []
\*   payload_array   a trace whose response content is the JSON text of an array
DamagedContents ==
  {"not_json", "empty_object", "top_array", "no_sections", "empty_messages",
   "payload_array"}

\* a trace whose response content is text that json.loads rejects
UnparseableBody == "body_not_json"

\* call_llm_summary: the model's structured output for an email, (summary,
\* commitments); a file with content "valid" for an email carries this output
call_llm_summary(email_hash) ==
  IF email_hash = "e1"
  THEN [summary |-> <<"o", "k">>, commitments |-> << <<"a">>, <<"b">> >>]
  ELSE [summary |-> <<"n", "o">>, commitments |-> << <<"c">> >>]

\* lines 84-90 of load_email: the summary and commitments of the response
\* content; content that is not JSON, an object without the keys and a
\* missing response give "" and []
llm_output(doc, email_hash) ==
  IF doc.payload = "object" THEN call_llm_summary(email_hash)
  ELSE [summary |-> <<>>, commitments |-> <<>>]

\* json.loads(trace_file.read_text()): the shape of the document ({} stands
\* for JSONDecodeError)
JsonLoads(content) ==
  CASE content = "valid" ->
         {[top |-> "object", metadata |-> "object", messages |-> "one",
           payload |-> "object"]}
    [] content = "empty_object" ->
         {[top |-> "empty_object", metadata |-> "missing", messages |-> "missing",
           payload |-> "missing"]}
    [] content = "top_array" ->
         {[top |-> "array", metadata |-> "missing", messages |-> "missing",
           payload |-> "missing"]}
    [] content = "no_sections" ->
         {[top |-> "object", metadata |-> "missing", messages |-> "missing",
           payload |-> "missing"]}
    [] content = "empty_messages" ->
         {[top |-> "object", metadata |-> "object", messages |-> "empty",
           payload |-> "missing"]}
    [] content = "payload_array" ->
         {[top |-> "object", metadata |-> "object", messages |-> "one",
           payload |-> "array"]}
    [] content = UnparseableBody ->
         {[top |-> "object", metadata |-> "object", messages |-> "one",
           payload |-> "not_json"]}
    [] OTHER -> {}

\* truth value of a parsed document: an empty object is falsy
TruthyDoc(doc) == doc.top # "empty_object"

\* load_trace_file: the parsed document ({} stands for None: missing file or bad JSON)
load_trace_file(tf, run_id, email_hash) ==
  IF <<run_id, email_hash>> \in DOMAIN tf /\ tf[<<run_id, email_hash>>] # "absent"
  THEN JsonLoads(tf[<<run_id, email_hash>>])
  ELSE {}

\* the exception load_email raises on a document ("" when it raises none):
\* trace_data.get of a document that is not an object (line 78), [0] of an
\* empty messages list (line 82), llm_output.get of a payload that is not an
\* object (lines 86-87)
load_email_exception(tf, run_id, email_hash) ==
  LET trace_data == load_trace_file(tf, run_id, email_hash)
      doc == CHOOSE d \in trace_data : TRUE
  IN  IF trace_data = {} THEN ""
      ELSE IF ~TruthyDoc(doc) THEN ""
      ELSE IF doc.top # "object" THEN "AttributeError"
      ELSE IF doc.messages = "empty" THEN "IndexError"
      ELSE IF doc.payload = "array" THEN "AttributeError"
      ELSE ""

\* (mutant) the email is taken to exist whatever the archive holds
load_email_unchecked(tf, run_id, email_hash) ==
  {[email_hash |-> email_hash, run_id |-> run_id]}

\* load_email: the display projection ({} stands for None); its run_id is the
\* run_id it was called with
load_email(tf, run_id, email_hash) ==
  LET trace_data == load_trace_file(tf, run_id, email_hash)
  IN  IF trace_data = {} \/ \A d \in trace_data : ~TruthyDoc(d) THEN {}
      ELSE {[email_hash |-> email_hash, run_id |-> run_id,
             summary |-> llm_output(d, email_hash).summary,
             commitments |-> llm_output(d, email_hash).commitments]
              : d \in trace_data}

\* sorted(run_dir.glob("trace_*.json")): the files of a run in name order
SortedHashes == <<"e1", "e2">>

\* the exception list_emails raises ("" when it raises none): trace_data.get
\* of a document that is not an object (line 125)
list_emails_exception(tf, run_id) ==
  IF \E i \in 1..Len(SortedHashes) :
       \E d \in load_trace_file(tf, run_id, SortedHashes[i]) :
         TruthyDoc(d) /\ d.top # "object"
  THEN "AttributeError" ELSE ""

\* list_emails: one entry per file of the run whose document is truthy
RECURSIVE ListEmailsFrom(_, _, _)
ListEmailsFrom(tf, run_id, hashes) ==
  IF hashes = <<>> THEN <<>>
  ELSE (IF \E d \in load_trace_file(tf, run_id, Head(hashes)) : TruthyDoc(d)
        THEN <<Head(hashes)>> ELSE <<>>)
         \o ListEmailsFrom(tf, run_id, Tail(hashes))

list_emails(tf, run_id) == ListEmailsFrom(tf, run_id, SortedHashes)

-----------------------------------------------------------------------------
(* SQL statements *)

\* INSERT OR REPLACE INTO trace_runs
InsertOrReplaceTraceRun(tr, row) ==
  {x \in tr : x.run_id # row.run_id} \cup {row}

\* INSERT OR REPLACE INTO labelers
InsertOrReplaceLabeler(ls, row) ==
  {x \in ls : x.labeler_id # row.labeler_id} \cup {row}

\* INSERT INTO labelers
InsertLabeler(ls, row) == ls \cup {row}

\* INSERT OR REPLACE INTO annotations
InsertOrReplaceAnnotation(as, row) ==
  {x \in as : x.annotation_id # row.annotation_id} \cup {row}

\* (mutant) a plain INSERT: the row of the same id stays
InsertFailureModeKeepOld(fms, row) == fms \cup {row}

\* INSERT OR REPLACE INTO failure_modes
InsertOrReplaceFailureMode(fms, row) ==
  {x \in fms : x.failure_mode_id # row.failure_mode_id} \cup {row}

\* (mutant) a plain INSERT: the link of the same pair stays
InsertAxialLinkKeepOld(ls, row) == ls \cup {row}

\* INSERT OR REPLACE INTO axial_links
InsertOrReplaceAxialLink(ls, row) ==
  {x \in ls : ~(x.annotation_id = row.annotation_id
                /\ x.failure_mode_id = row.failure_mode_id)} \cup {row}

\* (mutant) the links of the annotation are left in place
DeleteLinksOfAnnotationSkipped(ls, annotation_id) == ls

\* DELETE FROM axial_links WHERE annotation_id = ?
DeleteLinksOfAnnotation(ls, annotation_id) ==
  {x \in ls : x.annotation_id # annotation_id}

\* DELETE FROM annotations WHERE annotation_id = ?
DeleteAnnotationRow(as, annotation_id) ==
  {x \in as : x.annotation_id # annotation_id}

\* (mutant) the failure mode is left out of the WHERE clause
DeleteLinkRowAnyMode(ls, annotation_id, failure_mode_id) ==
  {x \in ls : x.annotation_id # annotation_id}

\* DELETE FROM axial_links WHERE annotation_id = ? AND failure_mode_id = ?
DeleteLinkRow(ls, annotation_id, failure_mode_id) ==
  {x \in ls : ~(x.annotation_id = annotation_id
                /\ x.failure_mode_id = failure_mode_id)}

\* (mutant) the lookup never finds the labeler
LabelerExistsNever(ls, labeler_id) == FALSE

\* SELECT 1 FROM labelers WHERE labeler_id = ? LIMIT 1
LabelerExists(ls, labeler_id) == \E x \in ls : x.labeler_id = labeler_id

\* (mutant) the lookup answers for an annotation that is not stored
SelectAnnotationRunAssumed(as, annotation_id) ==
  IF \E y \in as : y.annotation_id = annotation_id
  THEN {x.run_id : x \in {y \in as : y.annotation_id = annotation_id}}
  ELSE {"r1"}

\* SELECT run_id FROM annotations WHERE annotation_id = ? (fetchone; {} is None)
SelectAnnotationRun(as, annotation_id) ==
  {x.run_id : x \in {y \in as : y.annotation_id = annotation_id}}

-----------------------------------------------------------------------------
(* Queries *)

\* rows of a set ordered by a timestamp column, newest first
RECURSIVE OrderByDesc(_, _)
OrderByDesc(rows, col) ==
  IF rows = {} THEN <<>>
  ELSE LET top == CHOOSE r \in rows : \A x \in rows : x[col] <= r[col]
       IN  <<top>> \o OrderByDesc(rows \ {top}, col)

\* SELECT ... FROM annotations WHERE email_hash = ? ORDER BY created_at DESC
get_annotations(as, email_hash) ==
  LET rows == OrderByDesc({x \in as : x.email_hash = email_hash}, "created_at")
  IN  [i \in 1..Len(rows) |->
         [annotation_id |-> rows[i].annotation_id,
          labeler_id |-> rows[i].labeler_id,
          open_code |-> rows[i].open_code,
          pass_fail |-> ColumnBoolOrNone(rows[i].pass_fail),
          run_id |-> rows[i].run_id,
          created_at |-> rows[i].created_at]]

\* (mutant) a LEFT JOIN: a link without a catalog row is listed, with no
\* display name and no definition
get_selected_failure_modes_left_join(as, fms, ls, email_hash) ==
  LET ids == {x.annotation_id : x \in {y \in as : y.email_hash = email_hash}}
      mine == {al \in ls : al.annotation_id \in ids}
      joined == {[failure_mode_id |-> al.failure_mode_id,
                  display_name |-> fm.display_name,
                  definition |-> fm.definition,
                  annotation_id |-> al.annotation_id,
                  linked_at |-> al.linked_at] :
                 <<al, fm>> \in {p \in mine \X fms :
                                   p[1].failure_mode_id = p[2].failure_mode_id}}
      dangling == {[failure_mode_id |-> al.failure_mode_id,
                    display_name |-> NoText, definition |-> NoText,
                    annotation_id |-> al.annotation_id,
                    linked_at |-> al.linked_at] :
                   al \in {x \in mine : \A fm \in fms :
                                          fm.failure_mode_id # x.failure_mode_id}}
      rows == OrderByDesc(joined \cup dangling, "linked_at")
  IN  [i \in 1..Len(rows) |->
         [failure_mode_id |-> rows[i].failure_mode_id,
          display_name |-> rows[i].display_name,
          definition |-> rows[i].definition,
          annotation_id |-> rows[i].annotation_id]]

\* (mutant) the join without its WHERE clause on the email
get_selected_failure_modes_any_email(as, fms, ls, email_hash) ==
  LET joined == {[failure_mode_id |-> al.failure_mode_id,
                  display_name |-> fm.display_name,
                  definition |-> fm.definition,
                  annotation_id |-> al.annotation_id,
                  linked_at |-> al.linked_at] :
                 <<al, fm>> \in {p \in ls \X fms :
                                   p[1].failure_mode_id = p[2].failure_mode_id}}
      rows == OrderByDesc(joined, "linked_at")
  IN  [i \in 1..Len(rows) |->
         [failure_mode_id |-> rows[i].failure_mode_id,
          display_name |-> rows[i].display_name,
          definition |-> rows[i].definition,
          annotation_id |-> rows[i].annotation_id]]

\* SELECT ... FROM axial_links al JOIN failure_modes fm ... ORDER BY al.linked_at DESC
get_selected_failure_modes(as, fms, ls, email_hash) ==
  LET ids == {x.annotation_id : x \in {y \in as : y.email_hash = email_hash}}
      joined == {[failure_mode_id |-> al.failure_mode_id,
                  display_name |-> fm.display_name,
                  definition |-> fm.definition,
                  annotation_id |-> al.annotation_id,
                  linked_at |-> al.linked_at] :
                 <<al, fm>> \in {p \in ls \X fms :
                                   /\ p[1].failure_mode_id = p[2].failure_mode_id
                                   /\ p[1].annotation_id \in ids}}
      rows == OrderByDesc(joined, "linked_at")
  IN  [i \in 1..Len(rows) |->
         [failure_mode_id |-> rows[i].failure_mode_id,
          display_name |-> rows[i].display_name,
          definition |-> rows[i].definition,
          annotation_id |-> rows[i].annotation_id]]

-----------------------------------------------------------------------------
\* Timestamps are only ever compared within one table (ORDER BY generated_at,
\* created_at, linked_at), so each table has its own clock: the number of
\* timestamps handed out for it so far.  A later write gets a later timestamp.
\* the requests that can be in flight at the same time (Flask serves each
\* request on its own thread and connection)
Requests == {"A", "B"}
\* no request in flight
Idle == [op |-> "idle"]
\* the viewer process has not been started
NotStarted == [phase |-> "not_started"]

Init ==
  /\ trace_runs = {}
  /\ traces = [p \in Runs \X Hashes |-> "absent"]
  /\ labelers = {}
  /\ annotations = {}
  /\ failure_modes = {}
  /\ axial_links = {}
  /\ email_judgments = {}
  /\ clock = [trace_runs |-> 0, labelers |-> 0, annotations |-> 0, axial_links |-> 0]
  /\ uuids = 0
  /\ resp = [op |-> "init", status |-> 0]
  /\ inflight = [q \in Requests |-> Idle]
  /\ viewer = NotStarted

\* The store (database, trace archive, clocks, uuid source) as one value: every
\* handler below is a function from the store and the request to the store
\* after the request and the response.
Store ==
  [trace_runs |-> trace_runs, traces |-> traces, labelers |-> labelers,
   annotations |-> annotations, failure_modes |-> failure_modes,
   axial_links |-> axial_links, email_judgments |-> email_judgments,
   clock |-> clock, uuids |-> uuids]

\* the four tables of the service, of a store
Tables(S) == <<S.annotations, S.labelers, S.failure_modes, S.axial_links>>

\* the time on the clock of table t at its next write
Now(S, t) == S.clock[t] + 1
Tick(S, t) == [S.clock EXCEPT ![t] = S.clock[t] + 1]

\* the bounds of the model, on a store
WithinBounds(S) ==
  /\ S.clock.trace_runs <= MaxPasses
  /\ S.clock.labelers <= MaxLabelerWrites
  /\ S.clock.axial_links <= MaxLinkWrites
  /\ S.uuids <= MaxUuid

\* the store becomes S1 (every statement commits on its own: the connection
\* of get_conn is in autocommit mode and no handler opens a transaction)
Commit(S1) ==
  /\ WithinBounds(S1)
  /\ trace_runs' = S1.trace_runs
  /\ traces' = S1.traces
  /\ labelers' = S1.labelers
  /\ annotations' = S1.annotations
  /\ failure_modes' = S1.failure_modes
  /\ axial_links' = S1.axial_links
  /\ email_judgments' = S1.email_judgments
  /\ clock' = S1.clock
  /\ uuids' = S1.uuids

\* a request is served: the store and the response become the handler's result
Serve(out) ==
  /\ Commit(out.s)
  /\ resp' = out.resp
  /\ UNCHANGED <<inflight, viewer>>

-----------------------------------------------------------------------------
(* Producer *)

\* --model of a generation pass
Models == {"m1", "m2"}
\* the email jobs of a pass, in CSV order (rows with an empty body are no job)
JobLists == {<<>>, <<"e1">>, <<"e1", "e2">>}
NoJobs == <<>>

\* ingest_trace_run: upserts the run row; generated_at takes the column default
ingest_trace_run(S, run_id, model_name) ==
  [S EXCEPT
     !.trace_runs = InsertOrReplaceTraceRun(S.trace_runs,
        [run_id |-> run_id, model_name |-> model_name,
         generated_at |-> DefaultTimestamp(Now(S, "trace_runs"))]),
     !.clock = Tick(S, "trace_runs")]

\* datetime.now(datetime.timezone.utc): `datetime` is the class imported by
\* `from datetime import datetime`, which has no attribute `timezone`; {}
\* stands for the AttributeError
DatetimeTimezoneUtc == {}

\* create_trace_json: the trace document of an email ({} when it raises)
create_trace_json(email_hash, summary, commitments) ==
  IF DatetimeTimezoneUtc = {} THEN {}
  ELSE {"valid"}

\* the loop over the results (lines 319-337): each trace is created and
\* written over whatever the path holds, until one raises
RECURSIVE WriteTraces(_, _, _)
WriteTraces(tf, run_id, jobs) ==
  IF jobs = <<>>
  THEN [traces |-> tf, raised |-> "", recorded |-> <<>>, output_files |-> <<>>]
  ELSE LET llm == call_llm_summary(Head(jobs))
           trace_payload == create_trace_json(Head(jobs), llm.summary,
                                              llm.commitments)
           rest == WriteTraces(
                     [tf EXCEPT ![<<run_id, Head(jobs)>>] =
                                    CHOOSE c \in trace_payload : TRUE],
                     run_id, Tail(jobs))
       IN  IF trace_payload = {}
           THEN [traces |-> tf, raised |-> "AttributeError",
                 recorded |-> <<Head(jobs)>>, output_files |-> <<>>]
           ELSE [rest EXCEPT !.recorded = <<Head(jobs)>> \o @,
                             !.output_files = <<Head(jobs)>> \o @]

\* process_csv: the run is ingested, then the jobs are summarised and their
\* traces written; status 1 stands for the traceback of an uncaught exception
process_csv(S, run_id, model_name, jobs) ==
  LET ingested == ingest_trace_run(S, run_id, model_name)
      written == WriteTraces(S.traces, run_id, jobs)
  IN  [s |-> [ingested EXCEPT !.traces = written.traces],
       resp |-> [op |-> "process_csv",
                 status |-> IF written.raised = "" THEN 0 ELSE 1,
                 error |-> written.raised, run_id |-> run_id, jobs |-> jobs]]

ProcessCsv(run_id, model_name, jobs) ==
  LET out == process_csv(Store, run_id, model_name, jobs)
  IN  /\ out.resp.op = "process_csv"
      /\ Serve(out)

\* an empty cell of the CSV, as pandas.read_csv loads it
NaN == "NaN"

\* str(row.get(column, "")).strip() of a cell: an empty cell reads "nan"
StrStrip(cell) ==
  IF cell = NaN THEN "nan" ELSE IF cell = " " THEN "" ELSE cell

\* the dataframes of a pass: whether the CSV has an email_hash column, and
\* its rows (row.get gives "" for a column the CSV does not have); a cell of
\* the body or email_hash column holds text, blanks, or nothing
Dataframes ==
  [hash_column : BOOLEAN,
   rows : UNION {[1..n -> [body : {"text", " ", NaN},
                           email_hash : Hashes \cup {" ", NaN}]] :
                   n \in 0..MaxRows}]

\* lines 279-300: the jobs of the rows with a non-empty body, in row order;
\* a row with a body and an empty email_hash raises RuntimeError
RECURSIVE EmailJobs(_, _)
EmailJobs(hash_column, rows) ==
  IF rows = <<>> THEN [raised |-> "", jobs |-> <<>>]
  ELSE LET body == StrStrip(Head(rows).body)
           email_hash == IF hash_column THEN StrStrip(Head(rows).email_hash)
                         ELSE ""
           rest == EmailJobs(hash_column, Tail(rows))
       IN  IF body = "" THEN rest
           ELSE IF email_hash = "" THEN [raised |-> "RuntimeError", jobs |-> <<>>]
           ELSE IF rest.raised # "" THEN rest
           ELSE [raised |-> "", jobs |-> <<email_hash>> \o rest.jobs]

\* the orders in which n summarize calls can finish
CompletionOrders(n) ==
  {c \in [1..n -> 1..n] : \A i, j \in 1..n : c[i] = c[j] => i = j}

\* list(pool.map(summarize, jobs)): each result is stored under the position
\* of its job when its call finishes, and the list is read in position order
PoolMap(jobs, completion) ==
  LET slot == [i \in 1..Len(jobs) |->
                 jobs[completion[CHOOSE k \in 1..Len(jobs) : completion[k] = i]]]
  IN  [i \in 1..Len(jobs) |-> slot[i]]

\* lines 313-317: the results of the jobs; with one worker the calls run one
\* after the other in job order
Summarize(jobs, workers, completion) ==
  IF workers > 1 THEN PoolMap(jobs, completion) ELSE jobs

\* process_csv on a dataframe with a worker count: the run is ingested, the
\* jobs are built, summarised and written; llm_calls are the emails the
\* model was called for
process_csv_workers(S, run_id, model_name, dataframe, workers, completion) ==
  LET ingested == ingest_trace_run(S, run_id, model_name)
      built == EmailJobs(dataframe.hash_column, dataframe.rows)
      results == Summarize(built.jobs, workers, completion)
      written == WriteTraces(S.traces, run_id, results)
      reply(status, error, llm_calls, recorded, output_files) ==
        [op |-> "process_csv", status |-> status, error |-> error,
         run_id |-> run_id, jobs |-> built.jobs, dataframe |-> dataframe,
         workers |-> workers, llm_calls |-> llm_calls, recorded |-> recorded,
         output_files |-> output_files]
  IN  IF built.raised # ""
      THEN [s |-> ingested, resp |-> reply(1, built.raised, {}, <<>>, <<>>)]
      ELSE [s |-> [ingested EXCEPT !.traces = written.traces],
            resp |-> reply(IF written.raised = "" THEN 0 ELSE 1, written.raised,
                           {built.jobs[i] : i \in 1..Len(built.jobs)},
                           written.recorded, written.output_files)]

ProcessCsvWorkers(run_id, model_name, dataframe, workers, completion) ==
  /\ completion \in CompletionOrders(
                      Len(EmailJobs(dataframe.hash_column, dataframe.rows).jobs))
  /\ LET out == process_csv_workers(Store, run_id, model_name, dataframe,
                                    workers, completion)
     IN  /\ out.resp.op = "process_csv"
         /\ Serve(out)

\* a trace file trace_<email_hash>.json is present under the directory of a
\* known run (files are write-once)
DepositTrace(run_id, email_hash) ==
  /\ \E r \in trace_runs : r.run_id = run_id
  /\ traces[<<run_id, email_hash>>] = "absent"
  /\ traces' = [traces EXCEPT ![<<run_id, email_hash>>] = "valid"]
  /\ resp' = [op |-> "deposit_trace", status |-> 0]
  /\ UNCHANGED <<trace_runs, labelers, annotations, failure_modes, axial_links,
                 email_judgments, clock, uuids, inflight, viewer>>

\* a trace file with damaged or unexpected content is present under the
\* directory of a known run
DepositDamagedTrace(run_id, email_hash, content) ==
  /\ \E r \in trace_runs : r.run_id = run_id
  /\ traces[<<run_id, email_hash>>] = "absent"
  /\ traces' = [traces EXCEPT ![<<run_id, email_hash>>] = content]
  /\ resp' = [op |-> "deposit_damaged_trace", status |-> 0]
  /\ UNCHANGED <<trace_runs, labelers, annotations, failure_modes, axial_links,
                 email_judgments, clock, uuids, inflight, viewer>>

\* GET /api/context: an exception that leaves the handler is a 500 response
api_context(S, run_arg) ==
  LET run_id == resolve_run_id(S.trace_runs, run_arg)
      reply(status, error, email_hashes) ==
        [op |-> "context", status |-> status, error |-> error,
         email_hashes |-> email_hashes]
  IN  IF ~Truthy(run_id)
      THEN [s |-> S, resp |-> reply(400, "No trace runs loaded yet", <<>>)]
      ELSE IF list_emails_exception(S.traces, run_id) # ""
      THEN [s |-> S, resp |-> reply(500, list_emails_exception(S.traces, run_id), <<>>)]
      ELSE [s |-> S, resp |-> reply(200, "", list_emails(S.traces, run_id))]

GetContext(run_arg) ==
  LET out == api_context(Store, run_arg)
  IN  /\ out.resp.op = "context"
      /\ Serve(out)

\* GET /api/email/<email_hash>
api_email(S, email_hash, run_arg) ==
  LET run_id == resolve_run_id(S.trace_runs, run_arg)
      reply(status, error) ==
        [op |-> "get_email", status |-> status, error |-> error,
         email_hash |-> email_hash]
  IN  IF ~Truthy(run_id)
      THEN [s |-> S, resp |-> reply(400, "No trace runs available")]
      ELSE IF load_email_exception(S.traces, run_id, email_hash) # ""
      THEN [s |-> S, resp |-> reply(500, load_email_exception(S.traces, run_id, email_hash))]
      ELSE IF load_email(S.traces, run_id, email_hash) = {}
      THEN [s |-> S, resp |-> reply(404, "Email not found")]
      ELSE [s |-> S, resp |-> reply(200, "")]

GetEmail(email_hash, run_arg) ==
  LET out == api_email(Store, email_hash, run_arg)
  IN  /\ out.resp.op = "get_email"
      /\ Serve(out)

-----------------------------------------------------------------------------
(* Annotation Repository *)

\* POST /api/labelers
api_labelers_create(S, labeler_arg, name_arg, email) ==
  LET fresh == ~Truthy(labeler_arg)
      labeler_id == IF fresh THEN Uuid4(S.uuids) ELSE labeler_arg
      name == IF Truthy(name_arg) THEN name_arg ELSE labeler_id
  IN  [s |-> [S EXCEPT
                !.labelers = InsertOrReplaceLabeler(S.labelers,
                   [labeler_id |-> labeler_id, name |-> name, email |-> email,
                    created_at |-> DefaultTimestamp(Now(S, "labelers"))]),
                !.clock = Tick(S, "labelers"),
                !.uuids = IF fresh THEN S.uuids + 1 ELSE S.uuids],
       resp |-> [op |-> "create_labeler", status |-> 200, error |-> "",
                 labeler_id |-> labeler_id]]

CreateLabeler(labeler_arg, name_arg, email) ==
  LET out == api_labelers_create(Store, labeler_arg, name_arg, email)
  IN  /\ out.resp.op = "create_labeler"
      /\ Serve(out)

\* (mutant) no labeler is created
EnsureLabelerSkipped(S, labeler_id) == S

\* the labeler get-or-create of POST /api/annotations (lines 287-295)
EnsureLabeler(S, labeler_id) ==
  IF Truthy(labeler_id) /\ ~LabelerExists(S.labelers, labeler_id)
  THEN [S EXCEPT
          !.labelers = InsertLabeler(S.labelers,
             [labeler_id |-> labeler_id, name |-> labeler_id, email |-> None,
              created_at |-> DefaultTimestamp(Now(S, "labelers"))]),
          !.clock = Tick(S, "labelers")]
  ELSE S

\* the row POST /api/annotations writes (lines 296-311)
AnnotationRow(annotation_id, email_hash, labeler_id, open_code, pass_fail, email, created_at) ==
  [annotation_id |-> annotation_id,
   email_hash |-> email_hash,
   labeler_id |-> labeler_id,
   open_code |-> open_code,
   pass_fail |-> PyBoolOrNone(pass_fail),
   run_id |-> email.run_id,
   created_at |-> created_at,
   updated_at |-> created_at]

\* POST /api/annotations
api_annotations_create(S, email_hash, raw_open_code, pass_fail, labeler_id, run_arg) ==
  LET open_code == Strip(raw_open_code)
      annotation_id == Uuid4(S.uuids)
      created_at == Now(S, "annotations")
      run_id == resolve_run_id(S.trace_runs, run_arg)
      email == load_email(S.traces, run_id, email_hash)
      reply(status, error, id) ==
        [op |-> "create_annotation", status |-> status, error |-> error,
         annotation_id |-> id, email_hash |-> email_hash,
         labeler_id |-> labeler_id]
      S1 == EnsureLabeler(S, labeler_id)
  IN  IF ~Truthy(email_hash) \/ open_code = <<>>
      THEN [s |-> S, resp |-> reply(400, "email_hash and open_code are required", None)]
      ELSE IF ~Truthy(run_id)
      THEN [s |-> S, resp |-> reply(400, "No trace runs available", None)]
      ELSE IF load_email_exception(S.traces, run_id, email_hash) # ""
      THEN [s |-> S,
            resp |-> reply(500, load_email_exception(S.traces, run_id, email_hash), None)]
      ELSE IF email = {}
      THEN [s |-> S, resp |-> reply(404, "Email not found", None)]
      ELSE [s |-> [S1 EXCEPT
                     !.annotations = InsertOrReplaceAnnotation(S1.annotations,
                        AnnotationRow(annotation_id, email_hash, labeler_id,
                                      open_code, pass_fail,
                                      CHOOSE e \in email : TRUE, created_at)),
                     !.clock = Tick(S1, "annotations"),
                     !.uuids = S.uuids + 1],
            resp |-> reply(200, "", annotation_id)]

CreateAnnotation(email_hash, raw_open_code, pass_fail, labeler_id, run_arg) ==
  LET out == api_annotations_create(Store, email_hash, raw_open_code, pass_fail,
                                    labeler_id, run_arg)
  IN  /\ out.resp.op = "create_annotation"
      /\ Serve(out)

\* (mutant) only the annotation row is deleted
api_annotations_delete_row_only(S, annotation_id) ==
  [s |-> [S EXCEPT
            !.annotations = DeleteAnnotationRow(S.annotations, annotation_id)],
   resp |-> [op |-> "delete_annotation", status |-> 200, error |-> "",
             annotation_id |-> annotation_id]]

\* DELETE /api/annotations/<annotation_id>
api_annotations_delete(S, annotation_id) ==
  LET S1 == [S EXCEPT
               !.axial_links = DeleteLinksOfAnnotation(S.axial_links, annotation_id)]
  IN  [s |-> [S1 EXCEPT
                !.annotations = DeleteAnnotationRow(S1.annotations, annotation_id)],
       resp |-> [op |-> "delete_annotation", status |-> 200, error |-> "",
                 annotation_id |-> annotation_id]]

DeleteAnnotation(annotation_id) ==
  LET out == api_annotations_delete(Store, annotation_id)
  IN  /\ out.resp.op = "delete_annotation"
      /\ Serve(out)

-----------------------------------------------------------------------------
(* Failure-Mode Catalog *)

\* the row POST /api/failure-modes writes (lines 339-349)
FailureModeRow(failure_mode_id, raw_display_name, raw_slug, raw_definition) ==
  LET display_name ==
        Strip(IF raw_display_name = NoText THEN NewFailureMode ELSE raw_display_name)
      slug == IF TruthyText(raw_slug) THEN raw_slug
              ELSE ReplaceSpaceHyphen(Lower(display_name))
      definition == IF raw_definition = NoText THEN <<>> ELSE raw_definition
  IN  [failure_mode_id |-> failure_mode_id, slug |-> slug,
       display_name |-> display_name, definition |-> definition]

\* POST /api/failure-modes
api_failure_modes_create(S, fm_arg, raw_display_name, raw_slug, raw_definition) ==
  LET fresh == ~Truthy(fm_arg)
      failure_mode_id == IF fresh THEN Uuid4(S.uuids) ELSE fm_arg
      row == FailureModeRow(failure_mode_id, raw_display_name, raw_slug, raw_definition)
  IN  [s |-> [S EXCEPT
                !.failure_modes = InsertOrReplaceFailureMode(S.failure_modes, row),
                !.uuids = IF fresh THEN S.uuids + 1 ELSE S.uuids],
       resp |-> [op |-> "upsert_failure_mode", status |-> 200, error |-> "",
                 row |-> row]]

UpsertFailureMode(fm_arg, raw_display_name, raw_slug, raw_definition) ==
  LET out == api_failure_modes_create(Store, fm_arg, raw_display_name, raw_slug, raw_definition)
  IN  /\ out.resp.op = "upsert_failure_mode"
      /\ Serve(out)

-----------------------------------------------------------------------------
(* Axial Link Table *)

\* (mutant) the link is stamped with a fixed run
AxialLinkRowFirstRun(annotation_id, failure_mode_id, annotation, linked_at) ==
  [annotation_id |-> annotation_id, failure_mode_id |-> failure_mode_id,
   run_id |-> "r1", linked_at |-> linked_at]

\* the row POST /api/axial-links writes (lines 375-381): annotation is the
\* fetched row of the annotation, whose first column is its run_id
AxialLinkRow(annotation_id, failure_mode_id, annotation, linked_at) ==
  [annotation_id |-> annotation_id, failure_mode_id |-> failure_mode_id,
   run_id |-> CHOOSE r \in annotation : TRUE, linked_at |-> linked_at]

\* POST /api/axial-links
api_axial_links_create(S, annotation_id, failure_mode_id) ==
  LET annotation == SelectAnnotationRun(S.annotations, annotation_id)
      reply(status, error) ==
        [op |-> "create_link", status |-> status, error |-> error,
         annotation_id |-> annotation_id, failure_mode_id |-> failure_mode_id]
  IN  IF ~Truthy(annotation_id) \/ ~Truthy(failure_mode_id)
      THEN [s |-> S,
            resp |-> reply(400, "annotation_id and failure_mode_id are required")]
      ELSE IF annotation = {}
      THEN [s |-> S, resp |-> reply(404, "Annotation not found")]
      ELSE [s |-> [S EXCEPT
                     !.axial_links = InsertOrReplaceAxialLink(S.axial_links,
                        AxialLinkRow(annotation_id, failure_mode_id, annotation,
                                     DefaultTimestamp(Now(S, "axial_links")))),
                     !.clock = Tick(S, "axial_links")],
            resp |-> reply(200, "")]

CreateLink(annotation_id, failure_mode_id) ==
  LET out == api_axial_links_create(Store, annotation_id, failure_mode_id)
  IN  /\ out.resp.op = "create_link"
      /\ Serve(out)

\* DELETE /api/axial-links
api_axial_links_delete(S, annotation_id, failure_mode_id) ==
  LET reply(status, error) ==
        [op |-> "delete_link", status |-> status, error |-> error,
         annotation_id |-> annotation_id, failure_mode_id |-> failure_mode_id]
  IN  IF ~Truthy(annotation_id) \/ ~Truthy(failure_mode_id)
      THEN [s |-> S,
            resp |-> reply(400, "annotation_id and failure_mode_id required")]
      ELSE [s |-> [S EXCEPT
                     !.axial_links = DeleteLinkRow(S.axial_links, annotation_id,
                                                   failure_mode_id)],
            resp |-> reply(200, "")]

DeleteLink(annotation_id, failure_mode_id) ==
  LET out == api_axial_links_delete(Store, annotation_id, failure_mode_id)
  IN  /\ out.resp.op = "delete_link"
      /\ Serve(out)

-----------------------------------------------------------------------------
(* Suggestion Engine *)

\* the longest prefix of s made of letters
RECURSIVE AlphaPrefix(_)
AlphaPrefix(s) ==
  IF s # <<>> /\ IsAlpha(Head(s)) THEN <<Head(s)>> \o AlphaPrefix(Tail(s)) ELSE <<>>

\* re.findall(r"[A-Za-z]{4,}", s): the runs of four letters or more, in order
RECURSIVE FindAllWords(_)
FindAllWords(s) ==
  IF s = <<>> THEN <<>>
  ELSE IF ~IsAlpha(Head(s)) THEN FindAllWords(Tail(s))
  ELSE LET run == AlphaPrefix(s)
       IN  (IF Len(run) >= 4 THEN <<run>> ELSE <<>>)
             \o FindAllWords(SubSeq(s, Len(run) + 1, Len(s)))

\* (mutant) a counter that puts a new key in front of the older ones
CounterAddInFront(counter, word) ==
  IF \E i \in 1..Len(counter) : counter[i].word = word
  THEN [i \in 1..Len(counter) |->
          IF counter[i].word = word
          THEN [counter[i] EXCEPT !.n = counter[i].n + 1] ELSE counter[i]]
  ELSE <<[word |-> word, n |-> 1]>> \o counter

\* Counter: the keys in the order they were first added, with their counts;
\* counter[word] += 1
CounterAdd(counter, word) ==
  IF \E i \in 1..Len(counter) : counter[i].word = word
  THEN [i \in 1..Len(counter) |->
          IF counter[i].word = word
          THEN [counter[i] EXCEPT !.n = counter[i].n + 1] ELSE counter[i]]
  ELSE Append(counter, [word |-> word, n |-> 1])

\* Counter.update(tokens)
RECURSIVE CounterUpdate(_, _)
CounterUpdate(counter, tokens) ==
  IF tokens = <<>> THEN counter
  ELSE CounterUpdate(CounterAdd(counter, Head(tokens)), Tail(tokens))

\* (mutant) the least frequent keys first
RECURSIVE least_common(_, _)
least_common(counter, n) ==
  IF n = 0 \/ counter = <<>> THEN <<>>
  ELSE LET i == CHOOSE i \in 1..Len(counter) :
                  /\ \A j \in 1..Len(counter) : counter[j].n >= counter[i].n
                  /\ \A j \in 1..(i - 1) : counter[j].n > counter[i].n
       IN  <<counter[i]>> \o
             least_common(SubSeq(counter, 1, i - 1)
                            \o SubSeq(counter, i + 1, Len(counter)), n - 1)

\* Counter.most_common(n): the n keys of highest count, highest first, keys
\* of equal count in the order they were first added
RECURSIVE most_common(_, _)
most_common(counter, n) ==
  IF n = 0 \/ counter = <<>> THEN <<>>
  ELSE LET i == CHOOSE i \in 1..Len(counter) :
                  /\ \A j \in 1..Len(counter) : counter[j].n <= counter[i].n
                  /\ \A j \in 1..(i - 1) : counter[j].n < counter[i].n
       IN  <<counter[i]>> \o
             most_common(SubSeq(counter, 1, i - 1)
                           \o SubSeq(counter, i + 1, Len(counter)), n - 1)

\* the loop over the annotations (lines 407-409)
RECURSIVE CountWords(_, _)
CountWords(counter, anns) ==
  IF anns = <<>> THEN counter
  ELSE CountWords(CounterUpdate(counter, FindAllWords(Lower(Head(anns).open_code))),
                  Tail(anns))

\* f"Auto-suggested from frequent token '{word}'"
AutoSuggested(word) ==
  <<"A", "u", "t", "o", "-", "s", "u", "g", "g", "e", "s", "t", "e", "d", " ",
   "f", "r", "o", "m", " ",
   "f", "r", "e", "q", "u", "e", "n", "t", " ",
   "t", "o", "k", "e", "n", " ">>
    \o <<"'">> \o word \o <<"'">>

\* GET /api/failure-modes/suggest
api_failure_modes_suggest(S, email_hash) ==
  LET word_counter == CountWords(<<>>, get_annotations(S.annotations, email_hash))
      top == most_common(word_counter, 5)
      reply(status, error, suggestions) ==
        [op |-> "suggest", status |-> status, error |-> error,
         email_hash |-> email_hash, suggestions |-> suggestions]
  IN  IF ~Truthy(email_hash)
      THEN [s |-> S, resp |-> reply(400, "email_hash required", <<>>)]
      ELSE [s |-> S,
            resp |-> reply(200, "",
               [i \in 1..Len(top) |->
                  [display_name |-> Title(top[i].word),
                   definition |-> AutoSuggested(top[i].word),
                   slug |-> top[i].word]])]

Suggest(email_hash) ==
  LET out == api_failure_modes_suggest(Store, email_hash)
  IN  /\ out.resp.op = "suggest"
      /\ Serve(out)

-----------------------------------------------------------------------------
(* Maintenance script (tools/clear_annotations.py) *)

\* (mutant) the annotations are deleted before the links
ClearStatementsAnnotationsFirst ==
  <<"annotations", "axial_links", "email_judgments", "failure_modes">>

\* the DELETE statements of clear_annotations, in program order (lines 64-75)
ClearStatements ==
  <<"axial_links", "annotations", "email_judgments", "failure_modes">>

\* DELETE FROM <table>
DeleteFrom(S, table) == [S EXCEPT ![table] = {}]

\* the store after the first k DELETE statements of clear_annotations
RECURSIVE ClearPrefix(_, _)
ClearPrefix(S, k) ==
  IF k = 0 THEN S ELSE DeleteFrom(ClearPrefix(S, k - 1), ClearStatements[k])

\* the row counts clear_annotations reads and prints before it deletes
\* (lines 40-43)
ClearCounts(S) ==
  [axial_links |-> Cardinality(S.axial_links),
   annotations |-> Cardinality(S.annotations),
   email_judgments |-> Cardinality(S.email_judgments),
   failure_modes |-> Cardinality(S.failure_modes)]

\* clear_annotations(db_path, confirm): db_exists says whether db_path names
\* a file; confirm says whether the operator passed --yes or typed y at the
\* prompt.  Status 0: cleared, 1: aborted at the prompt, 2: database not found
clear_annotations(S, db_exists, confirm) ==
  IF ~db_exists
  THEN [s |-> S, resp |-> [op |-> "clear_annotations", status |-> 2]]
  ELSE IF ~confirm
  THEN [s |-> S, resp |-> [op |-> "clear_annotations", status |-> 1]]
  ELSE [s |-> ClearPrefix(S, Len(ClearStatements)),
        resp |-> [op |-> "clear_annotations", status |-> 0,
                  deleted |-> ClearCounts(S)]]

ClearAnnotations(db_exists, confirm) ==
  LET out == clear_annotations(Store, db_exists, confirm)
  IN  /\ out.resp.op = "clear_annotations"
      /\ Serve(out)

\* a pass/fail judgment of an email is in email_judgments (the table is
\* written outside these tools)
RecordJudgment(email_hash) ==
  /\ email_judgments' = email_judgments \cup {[email_hash |-> email_hash]}
  /\ email_judgments' # email_judgments
  /\ resp' = [op |-> "record_judgment", status |-> 0]
  /\ UNCHANGED <<trace_runs, traces, labelers, annotations, failure_modes,
                 axial_links, clock, uuids, inflight, viewer>>

-----------------------------------------------------------------------------
(* Email viewer (tools/email_viewer.py) *)

\* the output file: {} while the session has not written it, else the set of
\* the one sequence of rows it holds
Unwritten == {}

\* the keys run_viewer reads; "goto" stands for g and for :
Keys == {"q", "right", "left", "down", "up", "enter", "b", "s", "goto", "other"}

\* the lines of a record's body beyond the window (max_scroll, line 190)
MaxScroll == 1

\* prompt_goto: the number typed, or nothing ({}) for empty or invalid input
GotoTargets == {{}} \cup {{t} : t \in -1..(MaxRecords + 1)}

Min2(a, b) == IF a <= b THEN a ELSE b
Max2(a, b) == IF a >= b THEN a ELSE b

clamp(value, lower, upper) == Max2(lower, Min2(upper, value))

\* list.remove(x): the list without the first occurrence of x
RECURSIVE ListRemove(_, _)
ListRemove(list, x) ==
  IF list = <<>> THEN <<>>
  ELSE IF Head(list) = x THEN Tail(list)
  ELSE <<Head(list)>> \o ListRemove(Tail(list), x)

\* (mutant) Enter always adds the current email
ToggleAlwaysAppend(selected_order, idx) == Append(selected_order, idx)

\* lines 218-221: Enter removes the index if it is selected and appends it
\* if it is not
Toggle(selected_order, idx) ==
  IF \E i \in 1..Len(selected_order) : selected_order[i] = idx
  THEN ListRemove(selected_order, idx)
  ELSE Append(selected_order, idx)

\* save_selection: the rows written to the output file (<<>> is the empty
\* file written for an empty selection)
save_selection(selection_order) ==
  [rank \in 1..Len(selection_order) |->
     [index |-> selection_order[rank], selection_rank |-> rank]]

\* main up to curses.wrapper: the records are loaded (their index is their
\* row number, 0..n-1); without records the program exits at once
StartViewer(n, auto_save) ==
  /\ viewer = NotStarted
  /\ viewer' =
       IF n = 0
       THEN [phase |-> "exited", auto_save |-> auto_save, records |-> 0,
             current |-> 0, show_full_body |-> TRUE, scroll_offset |-> 0,
             selected_order |-> <<>>, output |-> Unwritten, writers |-> {},
             enters |-> 0, stamp |-> <<>>]
       ELSE [phase |-> "running", auto_save |-> auto_save, records |-> n,
             current |-> 0, show_full_body |-> TRUE, scroll_offset |-> 0,
             selected_order |-> <<>>, output |-> Unwritten, writers |-> {},
             enters |-> 0, stamp |-> [i \in 0..(n - 1) |-> 0]]
  /\ UNCHANGED <<trace_runs, traces, labelers, annotations, failure_modes,
                 axial_links, email_judgments, clock, uuids, resp, inflight>>

\* one turn of the loop of run_viewer on a key; on q the loop ends and main
\* saves the selection once more (line 279).  enters and stamp record, for
\* each index, at which Enter press it was last toggled; writers records
\* which statements wrote the output file
run_viewer(v, key, target) ==
  LET last == v.records - 1
      current == clamp(v.current, 0, last)
      idx == current
      scroll_offset == Max2(0, Min2(v.scroll_offset, MaxScroll))
      v0 == [v EXCEPT !.current = current, !.scroll_offset = scroll_offset]
      matches == {i \in 0..last : \E t \in target : i >= t}
      first_match == CHOOSE i \in matches : \A j \in matches : i <= j
  IN  CASE key = "q" ->
             LET v1 == IF v0.auto_save
                       THEN [v0 EXCEPT
                               !.output = {save_selection(v0.selected_order)},
                               !.writers = @ \cup {"auto_save"}]
                       ELSE v0
             IN  [v1 EXCEPT !.phase = "exited",
                            !.output = {save_selection(v1.selected_order)},
                            !.writers = @ \cup {"main"}]
        [] key = "right" ->
             [v0 EXCEPT !.current = Min2(current + 1, last),
                        !.scroll_offset = 0]
        [] key = "left" ->
             [v0 EXCEPT !.current = Max2(current - 1, 0), !.scroll_offset = 0]
        [] key = "down" ->
             IF ~v0.show_full_body
             THEN [v0 EXCEPT !.show_full_body = TRUE, !.scroll_offset = 0]
             ELSE [v0 EXCEPT !.scroll_offset = scroll_offset + 1]
        [] key = "up" ->
             IF ~v0.show_full_body
             THEN [v0 EXCEPT !.show_full_body = TRUE, !.scroll_offset = 0]
             ELSE [v0 EXCEPT !.scroll_offset = Max2(scroll_offset - 1, 0)]
        [] key = "enter" ->
             [v0 EXCEPT !.scroll_offset = 0,
                        !.selected_order = Toggle(v0.selected_order, idx),
                        !.current = Min2(current + 1, last),
                        !.enters = v0.enters + 1,
                        !.stamp[idx] = v0.enters + 1]
        [] key = "b" ->
             [v0 EXCEPT !.show_full_body = ~v0.show_full_body,
                        !.scroll_offset = 0]
        [] key = "s" ->
             [v0 EXCEPT !.output = {save_selection(v0.selected_order)},
                        !.writers = @ \cup {"s"}]
        [] key = "goto" ->
             IF matches # {}
             THEN [v0 EXCEPT !.current = first_match, !.scroll_offset = 0]
             ELSE v0
        [] OTHER -> v0

PressKey(key, target) ==
  /\ viewer.phase = "running"
  /\ key = "enter" => viewer.enters < MaxEnters
  /\ key # "goto" => target = {}
  /\ viewer' = run_viewer(viewer, key, target)
  /\ UNCHANGED <<trace_runs, traces, labelers, annotations, failure_modes,
                 axial_links, email_judgments, clock, uuids, resp, inflight>>

-----------------------------------------------------------------------------
(* Requests at statement granularity *)

\* no request is in flight
Quiet == \A q \in Requests : inflight[q] = Idle

\* INSERT INTO labelers on a table whose primary key is labeler_id: {} stands
\* for the constraint error of a duplicate key
InsertLabelerChecked(ls, row) ==
  IF LabelerExists(ls, row.labeler_id) THEN {} ELSE {InsertLabeler(ls, row)}

\* POST /api/annotations up to the email lookup (lines 270-286): a request
\* that passes them goes on to its statements with its id and timestamp
BeginCreateAnnotation(q, email_hash, raw_open_code, labeler_id) ==
  LET out == api_annotations_create(Store, email_hash, raw_open_code, "null",
                                    labeler_id, None)
      email == load_email(traces, resolve_run_id(trace_runs, None), email_hash)
  IN  /\ inflight[q] = Idle
      /\ out.resp.status = 200
      /\ Commit([Store EXCEPT !.uuids = uuids + 1,
                              !.clock = Tick(Store, "annotations")])
      /\ inflight' = [inflight EXCEPT ![q] =
            [op |-> "create_annotation",
             pc |-> IF Truthy(labeler_id) THEN "select_labeler"
                    ELSE "insert_annotation",
             row |-> AnnotationRow(Uuid4(uuids), email_hash, labeler_id,
                                   Strip(raw_open_code), "null",
                                   CHOOSE e \in email : TRUE,
                                   Now(Store, "annotations"))]]
      /\ UNCHANGED <<resp, viewer>>

\* SELECT 1 FROM labelers WHERE labeler_id = ? (lines 288-291)
SelectLabeler(q) ==
  /\ inflight[q].op = "create_annotation"
  /\ inflight[q].pc = "select_labeler"
  /\ inflight' = [inflight EXCEPT ![q].pc =
        IF LabelerExists(labelers, inflight[q].row.labeler_id)
        THEN "insert_annotation" ELSE "insert_labeler"]
  /\ UNCHANGED <<trace_runs, traces, labelers, annotations, failure_modes,
                 axial_links, email_judgments, clock, uuids, resp, viewer>>

\* INSERT INTO labelers(labeler_id, name) (lines 292-295): a duplicate key
\* raises, the handler ends with 500 and its annotation is not written
InsertLabelerStep(q) ==
  LET request == inflight[q]
      inserted == InsertLabelerChecked(labelers,
         [labeler_id |-> request.row.labeler_id,
          name |-> request.row.labeler_id, email |-> None,
          created_at |-> DefaultTimestamp(Now(Store, "labelers"))])
  IN  /\ request.op = "create_annotation"
      /\ request.pc = "insert_labeler"
      /\ IF inserted = {}
         THEN /\ inflight' = [inflight EXCEPT ![q] = Idle]
              /\ resp' = [op |-> "create_annotation", status |-> 500,
                          error |-> "ConstraintException", request |-> q,
                          annotation_id |-> request.row.annotation_id]
              /\ UNCHANGED <<trace_runs, traces, labelers, annotations,
                             failure_modes, axial_links, email_judgments,
                             clock, uuids, viewer>>
         ELSE /\ Commit([Store EXCEPT
                           !.labelers = CHOOSE ls \in inserted : TRUE,
                           !.clock = Tick(Store, "labelers")])
              /\ inflight' = [inflight EXCEPT ![q].pc = "insert_annotation"]
              /\ UNCHANGED <<resp, viewer>>

\* INSERT OR REPLACE INTO annotations (lines 296-311) and the response
InsertAnnotationStep(q) ==
  LET request == inflight[q]
  IN  /\ request.op = "create_annotation"
      /\ request.pc = "insert_annotation"
      /\ Commit([Store EXCEPT
                   !.annotations = InsertOrReplaceAnnotation(annotations,
                                                             request.row)])
      /\ inflight' = [inflight EXCEPT ![q] = Idle]
      /\ resp' = [op |-> "create_annotation", status |-> 200, error |-> "",
                  request |-> q, annotation_id |-> request.row.annotation_id]
      /\ UNCHANGED viewer

\* (mutant) the annotation row is deleted first
DeleteStatementsAnnotationFirst == <<"annotations", "axial_links">>

\* the statements of DELETE /api/annotations/<annotation_id>, in program
\* order (lines 327-332)
DeleteStatements == <<"axial_links", "annotations">>

\* DELETE FROM <table> WHERE annotation_id = ?
DeleteWhereAnnotation(S, table, annotation_id) ==
  IF table = "axial_links"
  THEN [S EXCEPT !.axial_links =
                   DeleteLinksOfAnnotation(S.axial_links, annotation_id)]
  ELSE [S EXCEPT !.annotations =
                   DeleteAnnotationRow(S.annotations, annotation_id)]

\* DELETE /api/annotations/<annotation_id>: the connection is opened
BeginDeleteAnnotation(q, annotation_id) ==
  /\ inflight[q] = Idle
  /\ inflight' = [inflight EXCEPT ![q] =
        [op |-> "delete_annotation", pc |-> 1, annotation_id |-> annotation_id,
         links_removed |-> 0]]
  /\ UNCHANGED <<trace_runs, traces, labelers, annotations, failure_modes,
                 axial_links, email_judgments, clock, uuids, resp, viewer>>

\* the next statement of a delete_annotation in flight; links_removed is the
\* row count of the DELETE on axial_links
DeleteStatementStep(q) ==
  LET request == inflight[q]
      S1 == DeleteWhereAnnotation(Store, DeleteStatements[request.pc],
                                  request.annotation_id)
      removed == request.links_removed
                   + Cardinality(axial_links) - Cardinality(S1.axial_links)
  IN  /\ request.op = "delete_annotation"
      /\ Commit(S1)
      /\ IF request.pc = Len(DeleteStatements)
         THEN /\ inflight' = [inflight EXCEPT ![q] = Idle]
              /\ resp' = [op |-> "delete_annotation", status |-> 200,
                          error |-> "", request |-> q,
                          annotation_id |-> request.annotation_id]
         ELSE /\ inflight' = [inflight EXCEPT ![q].pc = request.pc + 1,
                                               ![q].links_removed = removed]
              /\ UNCHANGED resp
      /\ UNCHANGED viewer

\* POST /api/axial-links up to the connection (lines 363-368): a request
\* with both ids goes on to its statements
BeginCreateLink(q, annotation_id, failure_mode_id) ==
  /\ inflight[q] = Idle
  /\ Truthy(annotation_id) /\ Truthy(failure_mode_id)
  /\ inflight' = [inflight EXCEPT ![q] =
        [op |-> "create_link", pc |-> "select_annotation",
         annotation_id |-> annotation_id, failure_mode_id |-> failure_mode_id,
         annotation |-> {}]]
  /\ UNCHANGED <<trace_runs, traces, labelers, annotations, failure_modes,
                 axial_links, email_judgments, clock, uuids, resp, viewer>>

\* SELECT run_id FROM annotations WHERE annotation_id = ? (lines 369-374):
\* without a row the handler answers 404
SelectAnnotationStep(q) ==
  LET request == inflight[q]
      annotation == SelectAnnotationRun(annotations, request.annotation_id)
  IN  /\ request.op = "create_link"
      /\ request.pc = "select_annotation"
      /\ IF annotation = {}
         THEN /\ inflight' = [inflight EXCEPT ![q] = Idle]
              /\ resp' = [op |-> "create_link", status |-> 404,
                          error |-> "Annotation not found", request |-> q,
                          annotation_id |-> request.annotation_id,
                          failure_mode_id |-> request.failure_mode_id]
         ELSE /\ inflight' = [inflight EXCEPT ![q].pc = "insert_link",
                                               ![q].annotation = annotation]
              /\ UNCHANGED resp
      /\ UNCHANGED <<trace_runs, traces, labelers, annotations, failure_modes,
                     axial_links, email_judgments, clock, uuids, viewer>>

\* INSERT OR REPLACE INTO axial_links (lines 375-381) with the run_id the
\* SELECT fetched, and the response
InsertLinkStep(q) ==
  LET request == inflight[q]
  IN  /\ request.op = "create_link"
      /\ request.pc = "insert_link"
      /\ Commit([Store EXCEPT
                   !.axial_links = InsertOrReplaceAxialLink(axial_links,
                      AxialLinkRow(request.annotation_id,
                                   request.failure_mode_id, request.annotation,
                                   DefaultTimestamp(Now(Store, "axial_links")))),
                   !.clock = Tick(Store, "axial_links")])
      /\ inflight' = [inflight EXCEPT ![q] = Idle]
      /\ resp' = [op |-> "create_link", status |-> 200, error |-> "",
                  request |-> q, annotation_id |-> request.annotation_id,
                  failure_mode_id |-> request.failure_mode_id]
      /\ UNCHANGED viewer

\* the server process stops while a request is in flight (a kill, or the
\* reloader of the debug server): what its statements committed stays
Interrupt(q) ==
  /\ inflight[q] # Idle
  /\ inflight' = [inflight EXCEPT ![q] = Idle]
  /\ resp' = [op |-> "interrupted", status |-> 0, request |-> q,
              was |-> inflight[q]]
  /\ UNCHANGED <<trace_runs, traces, labelers, annotations, failure_modes,
                 axial_links, email_judgments, clock, uuids, viewer>>

-----------------------------------------------------------------------------
(* Specifications *)

\* The store specification: one run, one email (e2 never has a trace), two
\* annotations of it, the catalog and the links.
Next ==
  \/ \E r \in {"r1"} : ProcessCsv(r, "m1", NoJobs)
  \/ \E r \in {"r1"}, h \in {"e1"} : DepositTrace(r, h)
  \/ \E h \in {"e1"}, oc \in {<<" ", "a", " ">>}, pf \in {"null"},
        l \in {None}, r \in {None} : CreateAnnotation(h, oc, pf, l, r)
  \/ \E a \in StoredIdArgs : DeleteAnnotation(a)
  \/ \E f \in FmIds, dn \in DisplayNameArgs, sl \in {NoText},
        df \in {NoText} : UpsertFailureMode(f, dn, sl, df)
  \/ \E a \in StoredIdArgs \cup {None}, f \in FmIds : CreateLink(a, f)
  \/ \E a \in StoredIdArgs, f \in FmIds \cup {None} : DeleteLink(a, f)

Spec == Init /\ [][Next]_vars

\* The annotation specification: two runs, the requests of POST /api/annotations
\* in all their variety, no catalog and no links.  Email e2 never has a trace.
NextAnn ==
  \/ \E r \in Runs : ProcessCsv(r, "m1", NoJobs)
  \/ \E r \in Runs, h \in {"e1"} : DepositTrace(r, h)
  \/ \E h \in HashArgs, oc \in OpenCodeArgs, pf \in {"null"},
        l \in LabelerArgs, r \in CreateRunArgs : CreateAnnotation(h, oc, pf, l, r)
  \/ \E a \in StoredIdArgs : DeleteAnnotation(a)

SpecAnn == Init /\ [][NextAnn]_vars

\* The link specification: two runs, email e1 traced under r1 and email e2
\* under r2, annotations of both, one catalog entry, the links and the
\* maintenance script.
NextLnk ==
  \/ \E r \in Runs : ProcessCsv(r, "m1", NoJobs)
  \/ \E p \in {<<"r1", "e1">>, <<"r2", "e2">>} : DepositTrace(p[1], p[2])
  \/ \E h \in Hashes, oc \in {<<"a">>}, pf \in {"null"},
        l \in {None}, r \in Runs : CreateAnnotation(h, oc, pf, l, r)
  \/ \E a \in StoredIdArgs : DeleteAnnotation(a)
  \/ \E f \in {"f1"}, dn \in {NoText}, sl \in {NoText},
        df \in {NoText} : UpsertFailureMode(f, dn, sl, df)
  \/ \E a \in StoredIdArgs, f \in FmIds : CreateLink(a, f)
  \/ \E a \in StoredIdArgs, f \in FmIds : DeleteLink(a, f)
  \/ \E c \in BOOLEAN : ClearAnnotations(TRUE, c)

SpecLnk == Init /\ [][NextLnk]_vars

\* The labeler specification: one run, one email, labelers registered
\* explicitly and created on the fly, annotations with and without a labeler,
\* and the maintenance script.
NextLab ==
  \/ \E r \in {"r1"} : ProcessCsv(r, "m1", NoJobs)
  \/ \E r \in {"r1"}, h \in {"e1"} : DepositTrace(r, h)
  \/ \E l \in LabelerArgs, ne \in {<<None, None>>, <<"n", "m">>} :
        CreateLabeler(l, ne[1], ne[2])
  \/ \E h \in {"e1"}, oc \in {<<"a">>}, pf \in {"null"},
        l \in LabelerArgs, r \in {None} : CreateAnnotation(h, oc, pf, l, r)
  \/ \E a \in StoredIdArgs : DeleteAnnotation(a)
  \/ \E c \in BOOLEAN : ClearAnnotations(TRUE, c)

SpecLab == Init /\ [][NextLab]_vars

\* The listing specification: one run, both emails, annotations with the
\* three judgments.
NextGet ==
  \/ \E r \in {"r1"} : ProcessCsv(r, "m1", NoJobs)
  \/ \E r \in {"r1"}, h \in Hashes : DepositTrace(r, h)
  \/ \E h \in Hashes, oc \in {<<"a">>}, pf \in AllPassFailArgs,
        l \in {None}, r \in {None} : CreateAnnotation(h, oc, pf, l, r)
  \/ \E a \in StoredIdArgs : DeleteAnnotation(a)

SpecGet == Init /\ [][NextGet]_vars

\* The suggestion specification: one run, both emails, annotations whose open
\* codes share words, and the suggestion requests.
NextSug ==
  \/ \E r \in {"r1"} : ProcessCsv(r, "m1", NoJobs)
  \/ \E r \in {"r1"}, h \in Hashes : DepositTrace(r, h)
  \/ \E h \in Hashes, oc \in SuggestCodeArgs, pf \in {"null"},
        l \in {None}, r \in {None} : CreateAnnotation(h, oc, pf, l, r)
  \/ \E a \in StoredIdArgs : DeleteAnnotation(a)
  \/ \E h \in HashArgs : Suggest(h)

SpecSug == Init /\ [][NextSug]_vars

\* The trace specification: one run whose directory receives trace files of
\* every content, and the requests that read them.
NextTrace ==
  \/ \E r \in {"r1"} : ProcessCsv(r, "m1", NoJobs)
  \/ \E r \in {"r1"}, h \in Hashes : DepositTrace(r, h)
  \/ \E r \in {"r1"}, h \in Hashes, c \in DamagedContents :
        DepositDamagedTrace(r, h, c)
  \/ \E r \in {None} : GetContext(r)
  \/ \E h \in Hashes, r \in {None} : GetEmail(h, r)
  \/ \E h \in Hashes, oc \in {<<"a">>}, pf \in {"null"},
        l \in {None}, r \in {None} : CreateAnnotation(h, oc, pf, l, r)

SpecTrace == Init /\ [][NextTrace]_vars

\* Generation passes over both runs with either model and any job list, the
\* files of run r1, and the service and the maintenance script beside them.
NextGen ==
  \/ \E r \in Runs, m \in Models, jobs \in JobLists : ProcessCsv(r, m, jobs)
  \/ \E h \in Hashes : DepositTrace("r1", h)
  \/ \E h \in Hashes : DepositDamagedTrace("r1", h, UnparseableBody)
  \/ \E h \in Hashes : GetEmail(h, None)
  \/ \E h \in Hashes :
       CreateAnnotation(h, <<"x">>, "null", None, None)
  \/ \E a \in StoredIdArgs : DeleteAnnotation(a)
  \/ \E c \in BOOLEAN : ClearAnnotations(TRUE, c)

SpecGen == Init /\ [][NextGen]_vars

\* Two requests in flight at the same time, interleaved statement by
\* statement: create_annotation with or without a labeler, delete_annotation,
\* and the one-statement handlers beside them.
NextRace ==
  \/ ProcessCsv("r1", "m1", NoJobs)
  \/ DepositTrace("r1", "e1")
  \/ \E q \in Requests, l \in LabelerArgs :
       BeginCreateAnnotation(q, "e1", <<"a">>, l)
  \/ \E q \in Requests : SelectLabeler(q)
  \/ \E q \in Requests : InsertLabelerStep(q)
  \/ \E q \in Requests : InsertAnnotationStep(q)
  \/ \E q \in Requests, a \in StoredIdArgs : BeginDeleteAnnotation(q, a)
  \/ \E q \in Requests : DeleteStatementStep(q)
  \/ \E dn \in DisplayNameArgs : UpsertFailureMode("f1", dn, NoText, NoText)
  \/ \E a \in StoredIdArgs : CreateLink(a, "f1")

SpecRace == Init /\ [][NextRace]_vars

\* One request at a time, which the stop of the process can cut short
\* between two of its statements.
NextInt ==
  \/ Quiet /\ ProcessCsv("r1", "m1", NoJobs)
  \/ Quiet /\ DepositTrace("r1", "e1")
  \/ Quiet /\ \E l \in LabelerArgs :
       BeginCreateAnnotation("A", "e1", <<"a">>, l)
  \/ SelectLabeler("A")
  \/ InsertLabelerStep("A")
  \/ InsertAnnotationStep("A")
  \/ Quiet /\ \E a \in StoredIdArgs : BeginDeleteAnnotation("A", a)
  \/ DeleteStatementStep("A")
  \/ Interrupt("A")
  \/ Quiet /\ \E a \in StoredIdArgs : CreateLink(a, "f1")

SpecInt == Init /\ [][NextInt]_vars

\* create_link and delete_annotation in flight at the same time, interleaved
\* statement by statement.
NextLinkRace ==
  \/ ProcessCsv("r1", "m1", NoJobs)
  \/ DepositTrace("r1", "e1")
  \/ Quiet /\ CreateAnnotation("e1", <<"a">>, "null", None, None)
  \/ \E q \in Requests, a \in StoredIdArgs : BeginCreateLink(q, a, "f1")
  \/ \E q \in Requests : SelectAnnotationStep(q)
  \/ \E q \in Requests : InsertLinkStep(q)
  \/ \E q \in Requests, a \in StoredIdArgs : BeginDeleteAnnotation(q, a)
  \/ \E q \in Requests : DeleteStatementStep(q)

SpecLinkRace == Init /\ [][NextLinkRace]_vars

\* Generation passes over dataframes with and without an email_hash column,
\* with one worker and with two, whose calls finish in any order.
NextWorkers ==
  \/ \E df \in Dataframes, workers \in {1, 2},
        completion \in UNION {CompletionOrders(n) : n \in 0..MaxRows} :
       ProcessCsvWorkers("r1", "m1", df, workers, completion)
  \/ \E h \in Hashes : GetEmail(h, None)

SpecWorkers == Init /\ [][NextWorkers]_vars

\* The maintenance script against a store that the service and the judgments
\* have filled.
NextClear ==
  \/ ProcessCsv("r1", "m1", NoJobs)
  \/ DepositTrace("r1", "e1")
  \/ \E l \in LabelerArgs :
       CreateAnnotation("e1", <<"a">>, "null", l, None)
  \/ UpsertFailureMode("f1", NoText, NoText, NoText)
  \/ \E a \in StoredIdArgs : CreateLink(a, "f1")
  \/ \E h \in Hashes : RecordJudgment(h)
  \/ \E db \in BOOLEAN, c \in BOOLEAN : ClearAnnotations(db, c)

SpecClear == Init /\ [][NextClear]_vars

\* A session of the email viewer.
NextView ==
  \/ \E n \in 0..MaxRecords, auto_save \in BOOLEAN : StartViewer(n, auto_save)
  \/ \E key \in Keys, target \in GotoTargets : PressKey(key, target)

SpecView == Init /\ [][NextView]_vars

-----------------------------------------------------------------------------
(* Properties *)

\* ids of the annotations of a store that belong to an email
AnnotationIdsOf(S, email_hash) ==
  {x.annotation_id : x \in {y \in S.annotations : y.email_hash = email_hash}}

\* list_links_for_email on a store
ListLinks(S, email_hash) ==
  get_selected_failure_modes(S.annotations, S.failure_modes, S.axial_links, email_hash)

\* the entries of a sequence
Range(seq) == {seq[i] : i \in 1..Len(seq)}

\* C1: after delete_annotation(id), in whatever store it is issued, no
\* annotation has that id, no axial link has that annotation_id, and
\* list_links_for_email of every email (the annotation's own included) returns
\* no entry for that annotation; the last served request, when it was a
\* delete_annotation, has left the store so.
C1_DeleteAnnotationCascades ==
  /\ \A a \in StoredIdArgs :
       LET after == api_annotations_delete(Store, a).s
       IN  /\ \A x \in after.annotations : x.annotation_id # a
           /\ \A l \in after.axial_links : l.annotation_id # a
           /\ \A h \in Hashes :
                \A e \in Range(ListLinks(after, h)) : e.annotation_id # a
  /\ resp.op = "delete_annotation" =>
       /\ \A x \in annotations : x.annotation_id # resp.annotation_id
       /\ \A l \in axial_links : l.annotation_id # resp.annotation_id
       /\ \A h \in Hashes :
            \A e \in Range(ListLinks(Store, h)) : e.annotation_id # resp.annotation_id

\* a delete_annotation has just been served for an annotation that had been
\* created and linked, while the other annotation keeps its link, which is listed
C1_Witness ==
  /\ resp.op = "delete_annotation"
  /\ resp.annotation_id = "u1"
  /\ uuids = 2
  /\ clock.axial_links = 2
  /\ \E l \in axial_links : l.annotation_id = "u2" /\ l.linked_at = 1
  /\ \E h \in Hashes : ListLinks(Store, h) # <<>>

\* C7: create_link stores a link only if the annotation and the failure mode
\* both exist at the time of the call, so every axial link references a
\* failure mode present in the catalog.
C7_LinksReferenceCatalog ==
  /\ (resp.op = "create_link" /\ resp.status = 200) =>
       /\ \E x \in annotations : x.annotation_id = resp.annotation_id
       /\ \E fm \in failure_modes : fm.failure_mode_id = resp.failure_mode_id
  /\ \A l \in axial_links :
       \E fm \in failure_modes : fm.failure_mode_id = l.failure_mode_id

\* t is raw without its leading and trailing blanks
IsTrimOf(t, raw) ==
  \E i \in 0..Len(raw), j \in 0..Len(raw) :
    /\ t = SubSeq(raw, i + 1, j)
    /\ \A k \in 1..i : raw[k] = " "
    /\ \A k \in (j + 1)..Len(raw) : raw[k] = " "
    /\ t # <<>> => (t[1] # " " /\ t[Len(t)] # " ")

\* the rows of a catalog with a given id / with another id
RowsOf(fms, failure_mode_id) == {x \in fms : x.failure_mode_id = failure_mode_id}
RowsNotOf(fms, failure_mode_id) == {x \in fms : x.failure_mode_id # failure_mode_id}

\* C10: the catalog never holds two rows of one failure_mode_id; an upsert
\* with an id leaves exactly one row of that id, holding the slug,
\* display_name and definition of that upsert, and a second upsert of the same
\* id leaves again exactly one row, holding the values of the second; the rows
\* of other ids, the links, the annotations and the labelers are unchanged.
C10_UpsertKeepsOneRow ==
  /\ \A x, y \in failure_modes : x.failure_mode_id = y.failure_mode_id => x = y
  /\ \A f \in FmIds, dn \in DisplayNameArgs, sl \in SlugArgs, df \in DefinitionArgs :
       LET out == api_failure_modes_create(Store, f, dn, sl, df)
           row == out.resp.row
           again == api_failure_modes_create(out.s, f, <<"C">>, <<"t">>, <<"e">>)
       IN  /\ RowsOf(out.s.failure_modes, f) = {row}
           /\ row.failure_mode_id = f
           /\ dn # NoText => IsTrimOf(row.display_name, dn)
           /\ dn = NoText => row.display_name = NewFailureMode
           /\ TruthyText(sl) => row.slug = sl
           /\ row.definition = IF df = NoText THEN <<>> ELSE df
           /\ RowsNotOf(out.s.failure_modes, f) = RowsNotOf(failure_modes, f)
           /\ out.s.axial_links = axial_links
           /\ out.s.annotations = annotations
           /\ out.s.labelers = labelers
           /\ RowsOf(again.s.failure_modes, f) =
                {[failure_mode_id |-> f, slug |-> <<"t">>,
                  display_name |-> <<"C">>, definition |-> <<"e">>]}
           /\ RowsNotOf(again.s.failure_modes, f) = RowsNotOf(failure_modes, f)
           /\ again.s.axial_links = axial_links

\* failure mode f1 has just been upserted with a display name, while failure
\* mode f2 is in the catalog under the default name and a link references f1
C10_Witness ==
  /\ resp.op = "upsert_failure_mode"
  /\ resp.row.failure_mode_id = "f1"
  /\ resp.row.display_name = <<"A", " ", "b">>
  /\ resp.row.slug = <<"a", "-", "b">>
  /\ \E x \in failure_modes :
       x.failure_mode_id = "f2" /\ x.display_name = NewFailureMode
  /\ \E l \in axial_links : l.failure_mode_id = "f1"
  /\ Cardinality(failure_modes) = 2

\* the links of a table without their linked_at
LinkPairs(ls) ==
  {[annotation_id |-> l.annotation_id, failure_mode_id |-> l.failure_mode_id,
    run_id |-> l.run_id] : l \in ls}

IsBlank(raw) == \A i \in 1..Len(raw) : raw[i] = " "

\* C2: create_annotation with an open_code that is empty or blank, or with an
\* empty or missing email_hash, fails with the validation error (400) and
\* leaves annotations, labelers, failure_modes and axial_links (and the rest of
\* the store) unchanged, whatever the store and the labeler_id.
C2_EmptySubmissionRejected ==
  \A h \in HashArgs \cup {None}, oc \in OpenCodeArgs \cup {<<"b">>},
     l \in LabelerArgs, r \in {None, "r1"} :
    (~Truthy(h) \/ IsBlank(oc)) =>
      LET out == api_annotations_create(Store, h, oc, "null", l, r)
      IN  /\ out.resp.status = 400
          /\ out.resp.error = "email_hash and open_code are required"
          /\ Tables(out.s) = Tables(Store)
          /\ out.s = Store

\* a blank submission naming the unknown labeler l1 has just been rejected, in
\* a store that holds an annotation; no labeler was created
C2_Witness ==
  /\ resp.op = "create_annotation"
  /\ resp.status = 400
  /\ resp.error = "email_hash and open_code are required"
  /\ resp.email_hash = "e1"
  /\ resp.labeler_id = "l1"
  /\ annotations # {}
  /\ labelers = {}

\* the email has no trace record in any run
NoTrace(email_hash) == \A run \in Runs : traces[<<run, email_hash>>] # "valid"

\* C3 (as claimed): create_annotation for an email_hash without a trace
\* record fails with the not-found error and persists nothing.
C3_NoTraceIsNotFound ==
  \A h \in Hashes, l \in LabelerArgs, r \in RunArgs :
    NoTrace(h) =>
      LET out == api_annotations_create(Store, h, <<"b">>, "null", l, r)
      IN  /\ out.resp.status = 404
          /\ Tables(out.s) = Tables(Store)

\* C3 (amended): create_annotation for an email_hash without a trace record
\* persists nothing, no annotation and no labeler, and fails: with the
\* not-found error (404) when a trace run is known, with the no-data error
\* (400) when none is.
C3_NoTraceRejected ==
  \A h \in Hashes, l \in LabelerArgs, r \in RunArgs :
    NoTrace(h) =>
      LET out == api_annotations_create(Store, h, <<"b">>, "null", l, r)
      IN  /\ trace_runs # {} =>
                out.resp.status = 404 /\ out.resp.error = "Email not found"
          /\ trace_runs = {} =>
                out.resp.status = 400 /\ out.resp.error = "No trace runs available"
          /\ Tables(out.s) = Tables(Store)
          /\ out.s = Store

\* an annotation of e2, which has no trace, naming the unknown labeler l1 has
\* just been refused with 404, in a store that holds an annotation of e1
C3_Witness ==
  /\ resp.op = "create_annotation"
  /\ resp.status = 404
  /\ resp.email_hash = "e2"
  /\ resp.labeler_id = "l1"
  /\ NoTrace("e2")
  /\ labelers = {}
  /\ annotations # {}

\* C4: a successful create_annotation adds exactly one annotation, under an
\* id no annotation of the store has, leaves the annotations of the store as
\* they are, and get_annotations(email_hash) then returns an entry with that
\* id and the trimmed open_code; the request succeeds whenever the open_code
\* is not blank and the email has a trace in the resolved run.
C4_CreateAddsFreshAnnotation ==
  \A h \in HashArgs, oc \in OpenCodeArgs \cup {<<"b">>},
     l \in LabelerArgs, r \in CreateRunArgs :
    LET out == api_annotations_create(Store, h, oc, "null", l, r)
        id == out.resp.annotation_id
        new == {x \in out.s.annotations : x.annotation_id = id}
    IN  /\ (/\ Truthy(h) /\ ~IsBlank(oc)
            /\ load_trace_file(traces, resolve_run_id(trace_runs, r), h) # {})
             => out.resp.status = 200
        /\ out.resp.status = 200 =>
             /\ \A x \in annotations : x.annotation_id # id
             /\ \A i \in 1..uuids : UuidHex[i] # id
             /\ Cardinality(new) = 1
             /\ out.s.annotations = annotations \cup new
             /\ Cardinality(out.s.annotations) = Cardinality(annotations) + 1
             /\ \A x \in new : x.email_hash = h /\ IsTrimOf(x.open_code, oc)
             /\ \E e \in Range(get_annotations(out.s.annotations, h)) :
                  e.annotation_id = id /\ IsTrimOf(e.open_code, oc)

\* annotation u2 has just been created next to annotation u1, and
\* get_annotations lists both, the newer first
C4_Witness ==
  /\ resp.op = "create_annotation"
  /\ resp.status = 200
  /\ resp.annotation_id = "u2"
  /\ Len(get_annotations(annotations, "e1")) = 2
  /\ get_annotations(annotations, "e1")[1].annotation_id = "u2"
  /\ get_annotations(annotations, "e1")[1].open_code = <<"a">>
  /\ get_annotations(annotations, "e1")[2].annotation_id = "u1"

\* the run ids of trace_runs
KnownRuns == {x.run_id : x \in trace_runs}

\* C5: resolve_run returns a non-empty requested id that is a known run
\* unchanged, whichever run is the latest.
C5_KnownRunReturned ==
  \A requested \in RunArgs :
    (Truthy(requested) /\ requested \in KnownRuns) =>
      resolve_run_id(trace_runs, requested) = requested

\* an annotation has just been stored under a requested run that is not the
\* latest run
C5_Witness ==
  /\ resp.op = "create_annotation"
  /\ resp.status = 200
  /\ \E x \in annotations :
       /\ x.annotation_id = resp.annotation_id
       /\ x.run_id # latest_run_id(trace_runs)
       /\ resolve_run_id(trace_runs, x.run_id) = x.run_id

\* C6: for a requested id that is absent, empty or unknown, resolve_run
\* returns a run of maximal generated_at, and nothing exactly when no run is
\* known; absent, empty and unknown ids resolve alike.
C6_FallbackToLatest ==
  \A requested \in RunArgs :
    (~Truthy(requested) \/ requested \notin KnownRuns) =>
      LET run_id == resolve_run_id(trace_runs, requested)
      IN  /\ run_id = None <=> trace_runs = {}
          /\ trace_runs # {} =>
               \E x \in trace_runs :
                 /\ x.run_id = run_id
                 /\ \A y \in trace_runs : y.generated_at <= x.generated_at
          /\ run_id = resolve_run_id(trace_runs, None)
          /\ run_id = resolve_run_id(trace_runs, "zz")

\* two runs are known, r1 the later one, and an annotation has just been
\* stored under it: the run an absent or unknown id resolves to
C6_Witness ==
  /\ KnownRuns = {"r1", "r2"}
  /\ \E x, y \in trace_runs :
       x.run_id = "r1" /\ y.run_id = "r2" /\ y.generated_at < x.generated_at
  /\ resolve_run_id(trace_runs, "zz") = "r1"
  /\ resolve_run_id(trace_runs, None) = "r1"
  /\ resp.op = "create_annotation"
  /\ resp.status = 200
  /\ \E x \in annotations : x.annotation_id = resp.annotation_id /\ x.run_id = "r1"

\* the known runs that hold a trace of the email
RunsOwning(email_hash) ==
  {run \in KnownRuns : traces[<<run, email_hash>>] = "valid"}

\* C8: an email that has a trace in a known run can be annotated whatever run
\* the request resolves to, and the run_id stored is a run that owns the email.
C8_RunOfEmailStored ==
  \A h \in Hashes, r \in RunArgs :
    RunsOwning(h) # {} =>
      LET out == api_annotations_create(Store, h, <<"b">>, "null", None, r)
      IN  /\ out.resp.status = 200
          /\ \E x \in out.s.annotations :
               /\ x.annotation_id = out.resp.annotation_id
               /\ x.run_id \in RunsOwning(h)

\* C11: create_link with an empty or missing annotation_id or failure_mode_id
\* fails with the validation error (400), and create_link naming an
\* annotation_id that is not stored fails with the not-found error (404); in
\* both cases axial_links and the rest of the store are unchanged.
C11_CreateLinkRejections ==
  \A a \in AnnotationIdArgs, f \in FmIdArgs :
    LET out == api_axial_links_create(Store, a, f)
    IN  /\ (~Truthy(a) \/ ~Truthy(f)) =>
             /\ out.resp.status = 400
             /\ out.resp.error = "annotation_id and failure_mode_id are required"
             /\ Tables(out.s) = Tables(Store)
             /\ out.s = Store
        /\ (Truthy(a) /\ Truthy(f) /\ \A x \in annotations : x.annotation_id # a) =>
             /\ out.resp.status = 404
             /\ out.resp.error = "Annotation not found"
             /\ Tables(out.s) = Tables(Store)
             /\ out.s = Store

\* a create_link naming annotation u1, which has been deleted, has just been
\* refused with 404 while the other annotation keeps its link
C11_Witness ==
  /\ resp.op = "create_link"
  /\ resp.status = 404
  /\ resp.annotation_id = "u1"
  /\ uuids = 2
  /\ \A x \in annotations : x.annotation_id = "u2"
  /\ \E l \in axial_links : l.annotation_id = "u2"

\* C13: delete_link(annotation_id, failure_mode_id) succeeds and removes
\* exactly the links of that pair, leaving every other link, the annotations,
\* the catalog and the labelers unchanged; when no link of the pair is stored
\* it succeeds and changes nothing, and so does a second delete_link of the
\* same pair.
C13_DeleteLinkRemovesOnePair ==
  \A a \in StoredIdArgs, f \in FmIds :
    LET out == api_axial_links_delete(Store, a, f)
        again == api_axial_links_delete(out.s, a, f)
        ofPair == {l \in axial_links : l.annotation_id = a /\ l.failure_mode_id = f}
    IN  /\ out.resp.status = 200
        /\ out.s.axial_links = axial_links \ ofPair
        /\ out.s.annotations = annotations
        /\ out.s.failure_modes = failure_modes
        /\ out.s.labelers = labelers
        /\ ofPair = {} => out.s = Store
        /\ again.resp.status = 200
        /\ again.s = out.s

\* the link (u1, f1) has just been deleted after two link writes: the link
\* (u1, f2) is still there
C13_Witness ==
  /\ resp.op = "delete_link"
  /\ resp.status = 200
  /\ resp.annotation_id = "u1"
  /\ resp.failure_mode_id = "f1"
  /\ clock.axial_links = 2
  /\ \E l \in axial_links : l.annotation_id = "u1" /\ l.failure_mode_id = "f2"
  /\ \A l \in axial_links : ~(l.annotation_id = "u1" /\ l.failure_mode_id = "f1")

\* C12: in every reachable state there is at most one axial link per
\* (annotation_id, failure_mode_id) pair and each link carries the run_id of
\* the annotation it references; a create_link stores the run_id of its
\* annotation, and repeating it for the same pair leaves one link of the pair
\* and as many links as before.
C12_OneLinkPerPair ==
  /\ \A x, y \in axial_links :
       (x.annotation_id = y.annotation_id /\ x.failure_mode_id = y.failure_mode_id)
         => x = y
  /\ \A l \in axial_links : \A x \in annotations :
       x.annotation_id = l.annotation_id => l.run_id = x.run_id
  /\ \A a \in StoredIdArgs, f \in FmIds :
       LET once == api_axial_links_create(Store, a, f)
           twice == api_axial_links_create(once.s, a, f)
           ofPair(ls) == {l \in ls : l.annotation_id = a /\ l.failure_mode_id = f}
       IN  once.resp.status = 200 =>
             /\ twice.resp.status = 200
             /\ Cardinality(ofPair(once.s.axial_links)) = 1
             /\ Cardinality(ofPair(twice.s.axial_links)) = 1
             /\ Cardinality(twice.s.axial_links) = Cardinality(once.s.axial_links)
             /\ \A l \in ofPair(twice.s.axial_links) : \A x \in annotations :
                  x.annotation_id = a => l.run_id = x.run_id

\* a second link write has just been served, for the pair (u2, f1), and has
\* left one link; the two annotations belong to different runs and the link
\* carries r2, the run of u2
C12_Witness ==
  /\ resp.op = "create_link"
  /\ resp.status = 200
  /\ resp.annotation_id = "u2"
  /\ resp.failure_mode_id = "f1"
  /\ clock.axial_links = 2
  /\ Cardinality(axial_links) = 1
  /\ \E x, y \in annotations :
       /\ x.annotation_id = "u1" /\ x.run_id = "r1"
       /\ y.annotation_id = "u2" /\ y.run_id = "r2"
  /\ \A l \in axial_links : l.annotation_id = "u2" /\ l.run_id = "r2"

\* the links of a store whose annotation belongs to the email and whose
\* failure mode is in the catalog
LinksOfEmail(S, email_hash) ==
  {l \in S.axial_links :
     /\ l.annotation_id \in AnnotationIdsOf(S, email_hash)
     /\ \E fm \in S.failure_modes : fm.failure_mode_id = l.failure_mode_id}

\* C14: list_links_for_email(e) returns one entry per link of an annotation
\* of e to a catalog entry, and no entry of an annotation of another email;
\* when annotation A of e1 is the only linked annotation and F1 its only
\* failure mode, list_links_for_email(e1) is one entry referencing F1 and A,
\* and a create_link(A, F1) with F1 in the catalog puts that entry first.
C14_ListLinksOfEmail ==
  /\ \A h \in Hashes :
       LET listed == ListLinks(Store, h)
       IN  /\ \A e \in Range(listed) :
                /\ \E x \in annotations :
                     x.annotation_id = e.annotation_id /\ x.email_hash = h
                /\ \A x \in annotations :
                     x.annotation_id = e.annotation_id => x.email_hash = h
                /\ \E l \in LinksOfEmail(Store, h) :
                     /\ l.annotation_id = e.annotation_id
                     /\ l.failure_mode_id = e.failure_mode_id
           /\ Len(listed) = Cardinality(LinksOfEmail(Store, h))
           /\ \A l \in LinksOfEmail(Store, h) : \E e \in Range(listed) :
                /\ l.annotation_id = e.annotation_id
                /\ l.failure_mode_id = e.failure_mode_id
  /\ \A a \in StoredIdArgs, f \in FmIds :
       LET out == api_axial_links_create(Store, a, f)
       IN  (/\ out.resp.status = 200
            /\ \E fm \in failure_modes : fm.failure_mode_id = f) =>
             \A x \in annotations : x.annotation_id = a =>
               LET listed == ListLinks(out.s, x.email_hash)
               IN  /\ listed # <<>>
                   /\ listed[1].annotation_id = a
                   /\ listed[1].failure_mode_id = f
                   /\ axial_links = {} => Len(listed) = 1

\* annotation u1 of e1 and annotation u2 of e2 exist, F1 is in the catalog and
\* create_link(u1, f1) has just been served after create_link(u2, f1):
\* list_links_for_email(e1) is the one entry (f1, u1)
C14_Witness ==
  /\ resp.op = "create_link"
  /\ resp.status = 200
  /\ resp.annotation_id = "u1"
  /\ resp.failure_mode_id = "f1"
  /\ \E x, y \in annotations :
       /\ x.annotation_id = "u1" /\ x.email_hash = "e1"
       /\ y.annotation_id = "u2" /\ y.email_hash = "e2"
  /\ Cardinality(axial_links) = 2
  /\ Len(ListLinks(Store, "e1")) = 1
  /\ ListLinks(Store, "e1")[1].failure_mode_id = "f1"
  /\ ListLinks(Store, "e1")[1].annotation_id = "u1"
  /\ Len(ListLinks(Store, "e2")) = 1

\* the ids of the labelers of a store
LabelerIdsOf(S) == {x.labeler_id : x \in S.labelers}

C17_ListsAnnotationsOfEmail ==
  /\ \A h \in Hashes :
       LET listed == get_annotations(annotations, h)
           rows == {x \in annotations : x.email_hash = h}
       IN  /\ Len(listed) = Cardinality(rows)
           /\ \A x \in rows : \E e \in Range(listed) :
                /\ e.annotation_id = x.annotation_id
                /\ e.open_code = x.open_code
                /\ e.labeler_id = x.labeler_id
                /\ e.pass_fail = x.pass_fail
                /\ e.run_id = x.run_id
                /\ e.created_at = x.created_at
           /\ \A e \in Range(listed) : \E x \in rows :
                e.annotation_id = x.annotation_id
           /\ \A i, j \in 1..Len(listed) :
                i < j => listed[i].created_at >= listed[j].created_at
  /\ \A h \in Hashes, pf \in AllPassFailArgs :
       LET out == api_annotations_create(Store, h, <<"a">>, pf, None, None)
           listed == get_annotations(out.s.annotations, h)
       IN  out.resp.status = 200 =>
             /\ listed # <<>>
             /\ listed[1].annotation_id = out.resp.annotation_id
             /\ pf = "null" => listed[1].pass_fail = None
             /\ pf = "true" => listed[1].pass_fail = "True"
             /\ pf = "false" => listed[1].pass_fail = "False"
             /\ pf = "null" => listed[1].pass_fail # "False"

\* an annotation of e1 without a judgment has just been stored after one
\* judged false: get_annotations lists the unset one first, then the false one
C17_Witness ==
  /\ resp.op = "create_annotation"
  /\ resp.status = 200
  /\ resp.annotation_id = "u2"
  /\ Len(get_annotations(annotations, "e1")) = 2
  /\ get_annotations(annotations, "e1")[1].annotation_id = "u2"
  /\ get_annotations(annotations, "e1")[1].pass_fail = None
  /\ get_annotations(annotations, "e1")[2].pass_fail = "False"
  /\ get_annotations(annotations, "e2") = <<>>

\* the places of a text where a run of letters starts (i) and ends (j)
WordSpans(text) ==
  LET starts == {i \in 1..Len(text) :
                   IsAlpha(text[i]) /\ (i = 1 \/ ~IsAlpha(text[i - 1]))}
      ends == {j \in 1..Len(text) :
                 IsAlpha(text[j]) /\ (j = Len(text) \/ ~IsAlpha(text[j + 1]))}
  IN  {p \in starts \X ends :
         p[1] <= p[2] /\ \A k \in p[1]..p[2] : IsAlpha(text[k])}

\* the occurrences, in the open codes of the annotations of an email, of
\* lower-cased words of four letters or more: annotation, place, word
WordOccurrences(S, email_hash) ==
  UNION {{[annotation_id |-> x.annotation_id, created_at |-> x.created_at,
           at |-> p[1], word |-> Lower(SubSeq(x.open_code, p[1], p[2]))] :
            p \in {q \in WordSpans(x.open_code) : q[2] - q[1] + 1 >= 4}} :
         x \in {y \in S.annotations : y.email_hash = email_hash}}

\* the number of occurrences of a word among occurrences
Frequency(occurrences, word) ==
  Cardinality({o \in occurrences : o.word = word})

\* the slugs of a candidate list
Slugs(suggestions) == {suggestions[i].slug : i \in 1..Len(suggestions)}

\* C18: suggest(email_hash) returns at most 5 candidates, each for a distinct
\* lower-cased word of four letters or more that occurs in the open codes of
\* the annotations of that email, in non-increasing order of total frequency
\* over those open codes, no omitted word being more frequent than a returned
\* one, and five of them when five words are there; for a single annotation
\* with open_code "wrong tone wrong wrong" the first candidate's slug is
\* "wrong".
C18_SuggestMostFrequent ==
  \A h \in Hashes :
    LET suggestions == api_failure_modes_suggest(Store, h).resp.suggestions
        occurrences == WordOccurrences(Store, h)
        words == {o.word : o \in occurrences}
        frequency == [w \in words |-> Frequency(occurrences, w)]
    IN  /\ Len(suggestions) <= 5
        /\ Len(suggestions) = IF Cardinality(words) < 5 THEN Cardinality(words) ELSE 5
        /\ Slugs(suggestions) \subseteq words
        /\ \A w \in Slugs(suggestions) :
             Len(w) >= 4 /\ \A k \in 1..Len(w) : \E n \in 1..26 : w[k] = LowerLetters[n]
        /\ \A i, j \in 1..Len(suggestions) :
             /\ i # j => suggestions[i].slug # suggestions[j].slug
             /\ i < j => frequency[suggestions[i].slug] >= frequency[suggestions[j].slug]
        /\ \A w \in words \ Slugs(suggestions) : \A v \in Slugs(suggestions) :
             frequency[w] <= frequency[v]
        /\ {x.open_code : x \in {y \in annotations : y.email_hash = h}} = {WrongTone}
             /\ Cardinality({y \in annotations : y.email_hash = h}) = 1
             => suggestions[1].slug = <<"w", "r", "o", "n", "g">>

\* suggest(e1) has just been served for two annotations whose open codes hold
\* six different words: five candidates came back, "wrong" (3 occurrences)
\* first and "tone" (2) second, and one word of frequency 1 was left out
C18_Witness ==
  /\ resp.op = "suggest"
  /\ resp.status = 200
  /\ resp.email_hash = "e1"
  /\ Len(resp.suggestions) = 5
  /\ resp.suggestions[1].slug = <<"w", "r", "o", "n", "g">>
  /\ resp.suggestions[1].display_name = <<"W", "r", "o", "n", "g">>
  /\ resp.suggestions[2].slug = <<"t", "o", "n", "e">>
  /\ Cardinality({o.word : o \in WordOccurrences(Store, "e1")}) = 6

\* the first occurrence of a word in the order suggest reads the open codes:
\* newest annotation first, each open code from left to right
FirstEncounter(occurrences, word) ==
  CHOOSE o \in occurrences :
    /\ o.word = word
    /\ \A q \in occurrences :
         q.word = word =>
           \/ q.created_at < o.created_at
           \/ q.created_at = o.created_at /\ q.at >= o.at

\* a store that holds the annotations of the email and nothing else
OnlyAnnotationsOf(S, email_hash) ==
  [S EXCEPT !.annotations = {x \in S.annotations : x.email_hash = email_hash},
            !.trace_runs = {}, !.labelers = {}, !.failure_modes = {},
            !.axial_links = {}, !.uuids = 0]

C20_TraceFailuresSwallowed ==
  /\ \A run \in KnownRuns :
       /\ \A h \in Hashes : load_email_exception(traces, run, h) = ""
       /\ list_emails_exception(traces, run) = ""
       /\ \A h \in Hashes :
            traces[<<run, h>>] = "valid" => h \in Range(list_emails(traces, run))
  /\ resp.status # 500

-----------------------------------------------------------------------------
(* Producer and reader *)

\* C21: a trace written by a generation pass and read by load_email yields the
\* summary and the commitments, in order, that the pass obtained from the
\* model for that email; a trace whose response content is not JSON yields
\* the summary "" and no commitments.
C21_TraceRoundTrip ==
  /\ resp.op = "process_csv" =>
       \A i \in 1..Len(resp.jobs) :
         \E e \in load_email(traces, resp.run_id, resp.jobs[i]) :
           /\ e.summary = call_llm_summary(resp.jobs[i]).summary
           /\ e.commitments = call_llm_summary(resp.jobs[i]).commitments
  /\ \A run \in Runs, h \in Hashes :
       traces[<<run, h>>] = UnparseableBody =>
         \A e \in load_email(traces, run, h) :
           e.summary = <<>> /\ e.commitments = <<>>

-----------------------------------------------------------------------------
(* Empty trace archive *)

\* C22: while trace_runs is empty, whatever run a request names, the context
\* request, the per-email request and create_annotation each answer 400 and
\* change nothing; with the required fields present create_annotation's error
\* is "No trace runs available", and no annotation and no labeler is stored.
C22_NoRunsIsNoData ==
  trace_runs = {} =>
    /\ \A r \in RunArgs :
         /\ api_context(Store, r).resp.status = 400
         /\ api_context(Store, r).resp.error = "No trace runs loaded yet"
         /\ api_context(Store, r).s = Store
    /\ \A h \in HashArgs, r \in RunArgs :
         /\ api_email(Store, h, r).resp.status = 400
         /\ api_email(Store, h, r).resp.error = "No trace runs available"
         /\ api_email(Store, h, r).s = Store
    /\ \A h \in HashArgs, oc \in OpenCodeArgs, pf \in PassFailArgs,
          l \in LabelerArgs, r \in RunArgs :
         LET out == api_annotations_create(Store, h, oc, pf, l, r)
         IN  /\ out.resp.status = 400
             /\ (Truthy(h) /\ Strip(oc) # <<>>) =>
                   out.resp.error = "No trace runs available"
             /\ out.s = Store
             /\ out.s.annotations = {} /\ out.s.labelers = {}

\* create_annotation was refused for want of a run and the store is empty
C22_Witness ==
  /\ resp.op = "create_annotation" /\ resp.status = 400
  /\ resp.error = "No trace runs available"
  /\ trace_runs = {} /\ annotations = {} /\ labelers = {}

-----------------------------------------------------------------------------
(* Interleaved and interrupted requests *)

\* every link of store S names an annotation of S
LinksHaveAnnotations(S) ==
  \A l \in S.axial_links : \E x \in S.annotations :
    x.annotation_id = l.annotation_id

\* C23: with two requests interleaved statement by statement, a
\* create_annotation request that passed its checks ends with 200 and its
\* annotation stored, whatever the other request did in between, and the
\* catalog holds one row per failure_mode_id (the later upsert's).
C23_ConcurrentWritersLastWriteWins ==
  /\ resp.op = "create_annotation" =>
       /\ resp.status = 200
       /\ \E x \in annotations : x.annotation_id = resp.annotation_id
  /\ \A x, y \in failure_modes :
       x.failure_mode_id = y.failure_mode_id => x = y

\* C24: delete_annotation removes the links of the annotation before the
\* annotation row: while its second statement is pending the annotation has
\* no link left, and in every state, the states an interruption between the
\* two statements leaves behind included, every link names a stored
\* annotation.
C24_LinksDeletedBeforeAnnotation ==
  /\ LinksHaveAnnotations(Store)
  /\ \A q \in Requests :
       (inflight[q].op = "delete_annotation" /\ inflight[q].pc = 2) =>
         \A l \in axial_links : l.annotation_id # inflight[q].annotation_id

\* a delete_annotation was interrupted after it had removed links and before
\* it removed the annotation, which is still stored
C24_Witness ==
  /\ resp.op = "interrupted"
  /\ resp.was.op = "delete_annotation"
  /\ resp.was.pc = 2
  /\ resp.was.links_removed > 0
  /\ \E x \in annotations : x.annotation_id = resp.was.annotation_id

\* C25: the two deletes of delete_annotation are one transaction: there is no
\* state in which a delete_annotation has removed links while the annotation
\* is still stored, neither while the request is in flight nor after it was
\* interrupted.
C25_DeleteIsOneTransaction ==
  /\ \A q \in Requests :
       (inflight[q].op = "delete_annotation" /\ inflight[q].links_removed > 0) =>
         \A x \in annotations : x.annotation_id # inflight[q].annotation_id
  /\ (resp.op = "interrupted" /\ resp.was.op = "delete_annotation"
        /\ resp.was.links_removed > 0) =>
         \A x \in annotations : x.annotation_id # resp.was.annotation_id

-----------------------------------------------------------------------------
(* Maintenance *)

\* C26: clear_annotations on an existing database, once confirmed, leaves
\* axial_links, annotations, email_judgments and failure_modes empty and
\* trace_runs, labelers and the trace files as they were, and after each of
\* its statements every remaining link still names a stored annotation (the
\* links go first); declined, or pointed at a database file that does not
\* exist, it leaves the whole store as it was.
C26_ClearAnnotationsFrame ==
  \A db \in BOOLEAN, c \in BOOLEAN :
    LET out == clear_annotations(Store, db, c)
    IN  IF db /\ c
        THEN /\ out.s.axial_links = {} /\ out.s.annotations = {}
             /\ out.s.email_judgments = {} /\ out.s.failure_modes = {}
             /\ out.s.trace_runs = trace_runs
             /\ out.s.labelers = labelers
             /\ out.s.traces = traces
             /\ \A k \in 0..Len(ClearStatements) :
                  LinksHaveAnnotations(ClearPrefix(Store, k))
        ELSE out.s = Store

\* a confirmed clear_annotations has deleted rows of all four tables and the
\* run and the labeler are still stored
C26_Witness ==
  /\ resp.op = "clear_annotations"
  /\ resp.status = 0
  /\ resp.deleted.axial_links > 0 /\ resp.deleted.annotations > 0
  /\ resp.deleted.email_judgments > 0 /\ resp.deleted.failure_modes > 0
  /\ axial_links = {} /\ annotations = {}
  /\ email_judgments = {} /\ failure_modes = {}
  /\ trace_runs # {} /\ labelers # {}

-----------------------------------------------------------------------------
(* Immutability of runs and traces *)

\* C27: no step of a generation pass, of the service or of clear_annotations
\* changes a stored run or a written trace: a trace_runs row is still there
\* after the step with the model_name its pass gave it, and a trace file
\* that exists keeps its content.
C27_RunsAndTracesNeverMutated ==
  [][/\ \A x \in trace_runs : \E y \in trace_runs' :
          y.run_id = x.run_id /\ y.model_name = x.model_name
     /\ \A run \in Runs, h \in Hashes :
          traces[<<run, h>>] # "absent" =>
            traces'[<<run, h>>] = traces[<<run, h>>]]_vars

-----------------------------------------------------------------------------
(* Email viewer *)

\* C28: the selection of the viewer never holds an index twice and holds
\* only indices of loaded records, in the order in which its members were
\* last added; a written output file has one row per email that was selected
\* when it was written, with selection_rank 1..n in row order, and a save of
\* the current selection writes its members in selection order.
C28_SelectionIsOrderedSet ==
  viewer.phase \in {"running", "exited"} =>
    LET sel == viewer.selected_order
        saved == save_selection(sel)
    IN  /\ \A i, j \in 1..Len(sel) : sel[i] = sel[j] => i = j
        /\ \A i \in 1..Len(sel) : sel[i] \in 0..(viewer.records - 1)
        /\ \A i, j \in 1..Len(sel) :
             i < j => viewer.stamp[sel[i]] < viewer.stamp[sel[j]]
        /\ Len(saved) = Len(sel)
        /\ \A i \in 1..Len(saved) :
             saved[i].selection_rank = i /\ saved[i].index = sel[i]
        /\ \A rows \in viewer.output :
             /\ \A i \in 1..Len(rows) :
                  /\ rows[i].selection_rank = i
                  /\ rows[i].index \in 0..(viewer.records - 1)
             /\ \A i, j \in 1..Len(rows) :
                  rows[i].index = rows[j].index => i = j

\* record 0 was selected, deselected and selected again after record 1, and
\* the selection was saved with s: record 1 has rank 1 and record 0 rank 2
C28_Witness ==
  /\ viewer.phase = "running"
  /\ viewer.enters = 4
  /\ viewer.selected_order = <<1, 0>>
  /\ viewer.writers = {"s"}
  /\ viewer.output = {<<[index |-> 1, selection_rank |-> 1],
                        [index |-> 0, selection_rank |-> 2]>>}

\* C29: a session that ends without the s key having been pressed and
\* without --auto-save leaves the output file unwritten, and the file is
\* written by the s key and by the save on quit under --auto-save only.
C29_OutputWrittenOnlyOnSaveKeys ==
  viewer.phase \in {"running", "exited"} =>
    /\ (viewer.phase = "exited" /\ ~viewer.auto_save
          /\ "s" \notin viewer.writers) => viewer.output = Unwritten
    /\ viewer.writers \subseteq
         {"s"} \cup (IF viewer.auto_save THEN {"auto_save"} ELSE {})

-----------------------------------------------------------------------------
(* Referential integrity of links *)

\* C30: in every state reached by completed create_annotation, create_link,
\* delete_link, delete_annotation, upsert_failure_mode and clear_annotations
\* calls, every link's annotation_id is the id of a stored annotation.
C30_NoOrphanLinksSequential ==
  \A l \in axial_links :
    \E x \in annotations : x.annotation_id = l.annotation_id

\* annotation u1 has just been deleted after two links had been written; the
\* link that is left belongs to annotation u2, which is stored
C30_Witness ==
  /\ resp.op = "delete_annotation"
  /\ resp.annotation_id = "u1"
  /\ clock.axial_links = 2
  /\ \A x \in annotations : x.annotation_id = "u2"
  /\ \E l \in axial_links : l.annotation_id = "u2" /\ l.linked_at = 1
  /\ Cardinality(axial_links) = 1

-----------------------------------------------------------------------------
(* create_link against delete_annotation *)

\* C31: with create_link and delete_annotation interleaved statement by
\* statement, once no request is in flight every link names a stored
\* annotation: no annotation is deleted with a link to it left behind.
C31_NoOrphanAfterInterleaving ==
  Quiet => \A l \in axial_links :
             \E x \in annotations : x.annotation_id = l.annotation_id

-----------------------------------------------------------------------------
(* Links to failure modes that are not in the catalog *)

\* the failure mode ids of the catalog of a store
CatalogIds(S) == {fm.failure_mode_id : fm \in S.failure_modes}

\* the (annotation_id, failure_mode_id) pairs list_links_for_email returns
ListedPairs(S, email_hash) ==
  {<<e.annotation_id, e.failure_mode_id>> : e \in Range(ListLinks(S, email_hash))}

\* C32: list_links_for_email returns no entry whose failure mode is not in
\* the catalog; a create_link to a failure mode without a catalog row stores
\* the link and the listing omits it; and the upsert of a failure mode with
\* the id of such a stored link keeps the link and makes the listing of the
\* annotation's email show it.
C32_ListingOmitsUncataloguedLinks ==
  /\ \A h \in Hashes : \A p \in ListedPairs(Store, h) : p[2] \in CatalogIds(Store)
  /\ \A a \in StoredIdArgs, f \in FmIds :
       LET out == api_axial_links_create(Store, a, f)
       IN  (out.resp.status = 200 /\ f \notin CatalogIds(Store)) =>
             /\ \E l \in out.s.axial_links :
                  l.annotation_id = a /\ l.failure_mode_id = f
             /\ \A h \in Hashes : <<a, f>> \notin ListedPairs(out.s, h)
  /\ \A l \in axial_links :
       l.failure_mode_id \notin CatalogIds(Store) =>
         /\ \A h \in Hashes :
              <<l.annotation_id, l.failure_mode_id>> \notin ListedPairs(Store, h)
         /\ \A dn \in DisplayNameArgs :
              LET out == api_failure_modes_create(Store, l.failure_mode_id, dn,
                                                  NoText, NoText)
              IN  /\ l \in out.s.axial_links
                  /\ \A x \in annotations :
                       x.annotation_id = l.annotation_id =>
                         <<l.annotation_id, l.failure_mode_id>>
                           \in ListedPairs(out.s, x.email_hash)

\* create_link(u1, f2) has just been served while only f1 is in the catalog
\* and u1 is linked to f1 as well: the link to f2 is stored and the listing
\* of e1 shows the link to f1 only
C32_Witness ==
  /\ resp.op = "create_link" /\ resp.status = 200
  /\ resp.annotation_id = "u1" /\ resp.failure_mode_id = "f2"
  /\ CatalogIds(Store) = {"f1"}
  /\ \E l \in axial_links : l.annotation_id = "u1" /\ l.failure_mode_id = "f2"
  /\ ListedPairs(Store, "e1") = {<<"u1", "f1">>}

-----------------------------------------------------------------------------
(* Worker counts of a generation pass *)

\* the rows of a dataframe that have a non-empty body, in row order
RECURSIVE RowsWithBody(_)
RowsWithBody(rows) ==
  IF rows = <<>> THEN <<>>
  ELSE (IF Head(rows).body \in {" ", NaN} THEN <<>> ELSE <<Head(rows)>>)
         \o RowsWithBody(Tail(rows))

\* a row has no email_hash: the column is missing or the cell is empty
LacksHash(dataframe, row) ==
  ~dataframe.hash_column \/ row.email_hash \in {" ", NaN}

\* C33: a generation pass gives, for two workers and whatever order their
\* calls finish in, what it gives for one worker; when a row with a body
\* lacks an email_hash it raises with no LLM call made and no trace written,
\* and otherwise it returns one trace path per row with a non-empty body, in
\* row order, each of them written, and records those emails in that order.
C33_WorkersEquivalent ==
  (resp.op = "process_csv" /\ resp.status \in {0, 1}) =>
    LET df == resp.dataframe
        with_body == RowsWithBody(df.rows)
        expected == [i \in 1..Len(with_body) |-> with_body[i].email_hash]
    IN  IF \E i \in 1..Len(with_body) : LacksHash(df, with_body[i])
        THEN /\ resp.error = "RuntimeError"
             /\ resp.llm_calls = {}
             /\ resp.output_files = <<>>
        ELSE /\ resp.output_files = expected
             /\ resp.recorded = expected
             /\ \A i \in 1..Len(expected) :
                  traces[<<resp.run_id, expected[i]>>] = "valid"

====
